---- MODULE Spec2Model ----
(***************************************************************************)
(* A model of the e-math value types: the scalar engines Rational<T,UT>    *)
(* (src/rational.rs) and Fixed<T,B> (src/fixed.rs), the matrices Mat2x2,   *)
(* Mat3x3 and Mat4x4 (src/mat2x2.rs, src/mat3x3.rs, src/mat4x4.rs), and    *)
(* Complex and Quaternion (src/complex.rs, src/quaternion.rs).             *)
(*                                                                         *)
(* The integer types of Rational and Fixed are modelled at the width of    *)
(* the narrowest instantiation, (i8,u8) and (u8,u8).  Arithmetic on them   *)
(* follows Rust: `as` casts reinterpret the bits, `/` and `%` truncate     *)
(* toward zero and panic on a zero divisor, and an overflowing +, -, *,    *)
(* unary - or pow panics when the build has overflow checks and wraps when *)
(* it has none.  The loop of _gcd is also run step by step, and the binary *)
(* and compound-assignment operators of Complex, Quaternion and Mat2x2     *)
(* have a state machine of their own.  Each family has its own             *)
(* specification; the variables of the other families stay at their idle   *)
(* values.                                                                 *)
(***************************************************************************)
EXTENDS Integers, Sequences, FiniteSets, TLC

VARIABLES
    signed,   \* TRUE: the (i8,u8) instantiation, FALSE: the (u8,u8) one
    checks,   \* TRUE: the build has overflow checks (overflow panics)
    a,        \* Rational: the first operand as it was constructed
    b,        \* Rational: the second operand
    s,        \* the scalar operand, of type $t
    acc,      \* Rational: the value the operations are applied to
    cmp,      \* the result of the last comparison
    hist,     \* the operations applied so far
    status,   \* "ok", or "panic" once an operation has panicked
    fa,       \* Fixed: raw integer of the first operand
    fb,       \* Fixed: raw integer of the second operand
    facc,     \* Fixed: raw integer of the value the operations are applied to
    B,        \* Fixed: the number of fractional bits, the const parameter B
    fs,       \* Fixed: the integer scalar operand of the mixed operations
    mat,      \* matrix: the matrix as it was constructed
    macc,     \* matrix: the matrix the operations are applied to
    mdet,     \* matrix: the scalar the last determinant() returned
    ca,       \* Complex: the number as it was constructed
    cacc,     \* Complex: the number the operations are applied to
    qa,       \* Quaternion: the number as it was constructed
    qacc,     \* Quaternion: the number the operations are applied to
    nrm,      \* the scalar the last norm_sqr() returned
    gin,      \* _gcd: the arguments <<a, b>> of the call
    ga,       \* _gcd: the local a
    gb,       \* _gcd: the local b
    gpc,      \* _gcd: "while" in the loop, "return" once it has returned, else "idle"
    cb,       \* Complex: the second operand
    qb,       \* Quaternion: the second operand
    qc,       \* Quaternion: the third operand
    va,       \* Vec3: the vector operand
    vacc      \* Vec3: the vector the last quaternion * vector returned

vars == <<signed, checks, a, b, s, acc, cmp, hist, status, fa, fb, facc,
          B, fs, mat, macc, mdet, ca, cacc, qa, qacc, nrm,
          gin, ga, gb, gpc, cb, qb, qc, va, vacc>>

rvars == <<a, b, s, acc, cmp>>
fvars == <<fa, fb, facc, B, fs>>
mvars == <<mat, macc, mdet>>
cvars == <<ca, cacc, qa, qacc, nrm>>
gvars == <<gin, ga, gb, gpc>>
avars == <<cb, qb, qc, va, vacc>>

(***************************************************************************)
(* Bounds of the model.                                                    *)
(***************************************************************************)
MaxN == 3      \* numerators range over -MaxN..MaxN
MaxS == 1      \* scalars range over -MaxS..MaxS
MaxD == 4      \* denominators range over 1..MaxD
MaxExp == 3    \* exponents of pow range over 0..MaxExp
MaxRaw == 3    \* Fixed raw integers lie within MaxRaw of 0 and of the type's ends
MaxB == 3      \* Fixed fractional bit counts B range over 1..MaxB
MaxFS == 1     \* Fixed scalar operands range over -MaxFS..MaxFS
MaxG == 12     \* arguments of _gcd range over 0..MaxG
MaxA == 1      \* operands of the operator state machine: components -MaxA..MaxA
MaxM == 4      \* Mat2x2 components range over -MaxM..MaxM
MaxC == 4      \* Complex components range over -MaxC..MaxC
MaxQ == 2      \* Quaternion components range over the halves in -MaxQ..MaxQ

(***************************************************************************)
(* The integer types.                                                      *)
(***************************************************************************)
BITS == 8

Modulus == 2 ^ BITS
Half == 2 ^ (BITS - 1)

MinT == IF signed THEN -Half ELSE 0
MaxT == IF signed THEN Half - 1 ELSE Modulus - 1
MaxUT == Modulus - 1

InT(x) == MinT <= x /\ x <= MaxT
InUT(x) == 0 <= x /\ x <= MaxUT

\* x as $ut
AsUT(x) == x % Modulus

\* x as $t
AsT(x) ==
    IF signed
    THEN LET m == x % Modulus IN IF m >= Half THEN m - Modulus ELSE m
    ELSE x % Modulus

Abs(x) == IF x < 0 THEN -x ELSE x

\* Rust's integer `/`: the quotient truncated toward zero (y # 0)
TDiv(x, y) ==
    LET q == Abs(x) \div Abs(y) IN IF (x < 0) = (y < 0) THEN q ELSE -q

\* Rust's integer `%`: the remainder has the sign of the dividend (y # 0)
TRem(x, y) == x - y * TDiv(x, y)

RECURSIVE Power(_, _)
Power(x, e) == IF e = 0 THEN 1 ELSE x * Power(x, e - 1)

(***************************************************************************)
(* Rational<T,UT>.  An operation yields [n, d, panic]; n and d mean        *)
(* nothing when panic is TRUE.                                             *)
(***************************************************************************)
Panic == [n |-> 0, d |-> 0, panic |-> TRUE]
Ok(n, d) == [n |-> n, d |-> d, panic |-> FALSE]

Rational(n, d) == [n |-> n, d |-> d]

RECURSIVE _gcd(_, _)
_gcd(x, y) == IF y # 0 THEN _gcd(y, x % y) ELSE x

_reduce(n, d) ==
    LET gcd == _gcd(AsUT(n), d)
        g == AsT(gcd)
    IN  IF g = 0 THEN Panic                              \* division by zero
        ELSE IF signed /\ n = MinT /\ g = -1 THEN Panic  \* MIN / -1
        ELSE Ok(TDiv(n, g), d \div gcd)

\* The fields n and d an operation computes, followed by _reduce().  n and d
\* are the exact values; ovf says that one of the operation's steps left its
\* type, which panics under overflow checks and wraps without them.
WithReduce(ovf, n, d) ==
    IF ovf /\ checks THEN Panic ELSE _reduce(AsT(n), AsUT(d))

\* The same for an operation that does not call _reduce().
NoReduce(ovf, n, d) ==
    IF ovf /\ checks THEN Panic ELSE Ok(AsT(n), AsUT(d))

inverse(x) == Ok(AsT(x.d), AsUT(x.n))

\* scalar == rational
eq_sr(x, o) == (o.d = 1) /\ (x = o.n)

\* rational == scalar
eq_rs(x, o) == (x.d = 1) /\ (x.n = o)

\* rational == rational
eq_rr(x, o) == (x.n = o.n) /\ (x.d = o.d)

\* l.partial_cmp(&r) of two $t values computed with overflow ovf
Ordering(ovf, l, r) ==
    IF ovf /\ checks THEN "panic"
    ELSE IF AsT(l) < AsT(r) THEN "Less"
    ELSE IF AsT(l) = AsT(r) THEN "Equal"
    ELSE "Greater"

\* scalar ? rational
partial_cmp_sr(x, o) ==
    LET l == x * AsT(o.d) IN Ordering(~InT(l), l, o.n)

\* rational ? scalar
partial_cmp_rs(x, o) ==
    LET r == o * AsT(x.d) IN Ordering(~InT(r), x.n, r)

\* rational ? rational
partial_cmp_rr(x, o) ==
    LET l == x.n * AsT(o.d)
        r == o.n * AsT(x.d)
    IN  Ordering(~InT(l) \/ ~InT(r), l, r)

\* scalar + rational
add_sr(x, o) ==
    LET t1 == x * AsT(o.d)
        t2 == t1 + o.n
    IN  WithReduce(~InT(t1) \/ ~InT(t2), t2, o.d)

\* rational + scalar
add_rs(x, o) ==
    LET t1 == AsT(x.d) * o
        t2 == x.n + t1
    IN  WithReduce(~InT(t1) \/ ~InT(t2), t2, x.d)

\* rational + rational
add_rr(x, o) ==
    LET t1 == x.n * AsT(o.d)
        t2 == o.n * AsT(x.d)
        t3 == t1 + t2
        u  == x.d * o.d
    IN  WithReduce(~InT(t1) \/ ~InT(t2) \/ ~InT(t3) \/ ~InUT(u), t3, u)

\* rational += scalar
add_assign_rs(x, o) ==
    LET t1 == o * AsT(x.d)
        t2 == x.n + t1
    IN  WithReduce(~InT(t1) \/ ~InT(t2), t2, x.d)

\* rational += rational
add_assign_rr(x, o) ==
    LET n1 == x.n * AsT(o.d)
        t2 == o.n * AsT(x.d)
        n2 == n1 + t2
        u  == x.d * o.d
    IN  WithReduce(~InT(n1) \/ ~InT(t2) \/ ~InT(n2) \/ ~InUT(u), n2, u)

\* scalar - rational
sub_sr(x, o) ==
    LET t1 == x * AsT(o.d)
        t2 == t1 - o.n
    IN  WithReduce(~InT(t1) \/ ~InT(t2), t2, o.d)

\* rational - scalar
sub_rs(x, o) ==
    LET t1 == AsT(x.d) * o
        t2 == x.n - t1
    IN  WithReduce(~InT(t1) \/ ~InT(t2), t2, x.d)

\* rational - rational
sub_rr(x, o) ==
    LET t1 == x.n * AsT(o.d)
        t2 == o.n * AsT(x.d)
        t3 == t1 - t2
        u  == x.d * o.d
    IN  WithReduce(~InT(t1) \/ ~InT(t2) \/ ~InT(t3) \/ ~InUT(u), t3, u)

\* rational -= scalar
sub_assign_rs(x, o) ==
    LET t1 == o * AsT(x.d)
        t2 == x.n - t1
    IN  WithReduce(~InT(t1) \/ ~InT(t2), t2, x.d)

\* rational -= rational
sub_assign_rr(x, o) ==
    LET n1 == x.n * AsT(o.d)
        t2 == o.n * AsT(x.d)
        n2 == n1 - t2
        u  == x.d * o.d
    IN  WithReduce(~InT(n1) \/ ~InT(t2) \/ ~InT(n2) \/ ~InUT(u), n2, u)

\* scalar * rational
mul_sr(x, o) ==
    LET t == x * o.n IN WithReduce(~InT(t), t, o.d)

\* rational * scalar
mul_rs(x, o) ==
    LET t == x.n * o IN WithReduce(~InT(t), t, x.d)

\* rational * rational
mul_rr(x, o) ==
    LET t == x.n * o.n
        u == x.d * o.d
    IN  WithReduce(~InT(t) \/ ~InUT(u), t, u)

\* rational *= scalar
mul_assign_rs(x, o) ==
    LET t == x.n * o IN WithReduce(~InT(t), t, x.d)

\* rational *= rational
mul_assign_rr(x, o) ==
    LET t == x.n * o.n
        u == x.d * o.d
    IN  WithReduce(~InT(t) \/ ~InUT(u), t, u)

\* rational % scalar
rem_rs(x, o) ==
    IF o = 0 THEN Panic                               \* remainder by zero
    ELSE IF signed /\ x.n = MinT /\ o = -1 THEN Panic \* MIN % -1
    ELSE Ok(TRem(x.n, o), x.d)

\* rational % rational
rem_rr(x, o) == Ok(x.n, x.d)

\* rational %= scalar
rem_assign_rs(x, o) ==
    IF o = 0 THEN Panic
    ELSE IF signed /\ x.n = MinT /\ o = -1 THEN Panic
    ELSE Ok(TRem(x.n, o), x.d)

\* rational %= rational
rem_assign_rr(x, o) == Ok(x.n, x.d)

\* Unsigned::pow
pow(x, exp) ==
    LET t == Power(x.n, exp)
        u == Power(x.d, exp)
    IN  WithReduce(~InT(t) \/ ~InUT(u), t, u)

(***************************************************************************)
(* rational_impl_div_unsigned                                              *)
(***************************************************************************)
\* scalar / rational
div_sr_unsigned(x, o) ==
    LET t == x * AsT(o.d) IN WithReduce(~InT(t), t, AsUT(o.n))

\* rational / scalar
div_rs_unsigned(x, o) ==
    LET u == x.d * AsUT(o) IN WithReduce(~InUT(u), x.n, u)

\* rational / rational
div_rr_unsigned(x, o) ==
    LET t == x.n * AsT(o.d)
        u == x.d * AsUT(o.n)
    IN  WithReduce(~InT(t) \/ ~InUT(u), t, u)

\* rational /= scalar
div_assign_rs_unsigned(x, o) ==
    LET u == x.d * AsUT(o) IN WithReduce(~InUT(u), x.n, u)

\* rational /= rational
div_assign_rr_unsigned(x, o) ==
    LET t == x.n * AsT(o.d)
        u == x.d * AsUT(o.n)
    IN  WithReduce(~InT(t) \/ ~InUT(u), t, u)

(***************************************************************************)
(* rational_impl_div_signed                                                *)
(***************************************************************************)
\* scalar / rational without the branch that folds the sign of other.n
div_sr_signed_unfolded(x, o) ==
    LET t == x * AsT(o.d) IN WithReduce(~InT(t), t, AsUT(o.n))

\* scalar / rational
div_sr_signed(x, o) ==
    IF o.n < 0
    THEN LET t1 == x * AsT(o.d)
             t2 == -t1
             m  == -o.n
         IN  WithReduce(~InT(t1) \/ ~InT(t2) \/ ~InT(m), t2, AsUT(m))
    ELSE LET t == x * AsT(o.d) IN WithReduce(~InT(t), t, AsUT(o.n))

\* rational / scalar
div_rs_signed(x, o) ==
    IF o < 0
    THEN LET t == -x.n
             m == -o
             u == x.d * AsUT(m)
         IN  WithReduce(~InT(t) \/ ~InT(m) \/ ~InUT(u), t, u)
    ELSE LET u == x.d * AsUT(o) IN WithReduce(~InUT(u), x.n, u)

\* rational / rational
div_rr_signed(x, o) ==
    IF o.n < 0
    THEN LET t1 == -x.n
             t2 == t1 * AsT(o.d)
             m  == -o.n
             u  == x.d * AsUT(m)
         IN  WithReduce(~InT(t1) \/ ~InT(t2) \/ ~InT(m) \/ ~InUT(u), t2, u)
    ELSE LET t == x.n * AsT(o.d)
             u == x.d * AsUT(o.n)
         IN  WithReduce(~InT(t) \/ ~InUT(u), t, u)

\* rational /= scalar
div_assign_rs_signed(x, o) ==
    IF o < 0
    THEN LET t == -x.n
             m == -o
             u == x.d * AsUT(m)
         IN  WithReduce(~InT(t) \/ ~InT(m) \/ ~InUT(u), t, u)
    ELSE LET u == x.d * AsUT(o) IN WithReduce(~InUT(u), x.n, u)

\* rational /= rational
div_assign_rr_signed(x, o) ==
    IF o.n < 0
    THEN LET t1 == -AsT(o.d)
             t2 == x.n * t1
             m  == -o.n
             u  == x.d * AsUT(m)
         IN  WithReduce(~InT(t1) \/ ~InT(t2) \/ ~InT(m) \/ ~InUT(u), t2, u)
    ELSE LET t == x.n * AsT(o.d)
             u == x.d * AsUT(o.n)
         IN  WithReduce(~InT(t) \/ ~InUT(u), t, u)

\* -rational
neg(x) == LET t == -x.n IN NoReduce(~InT(t), t, x.d)

(***************************************************************************)
(* The Div impls of the instantiation at hand: the signed pairs get them   *)
(* from rational_impl_div_signed, the unsigned ones from                   *)
(* rational_impl_div_unsigned.                                             *)
(***************************************************************************)
div_sr(x, o) == IF signed THEN div_sr_signed(x, o) ELSE div_sr_unsigned(x, o)
div_rs(x, o) == IF signed THEN div_rs_signed(x, o) ELSE div_rs_unsigned(x, o)
div_rr(x, o) == IF signed THEN div_rr_signed(x, o) ELSE div_rr_unsigned(x, o)
div_assign_rs(x, o) ==
    IF signed THEN div_assign_rs_signed(x, o) ELSE div_assign_rs_unsigned(x, o)
div_assign_rr(x, o) ==
    IF signed THEN div_assign_rr_signed(x, o) ELSE div_assign_rr_unsigned(x, o)

\* Unsigned::div_euclid
div_euclid(x, rhs) == div_rr(x, rhs)

\* Unsigned::rem_euclid
rem_euclid(x, rhs) == rem_rr(x, rhs)

(***************************************************************************)
(* The Rational state machine.  The operands a, b and s are chosen at      *)
(* construction; every operation of the engine can be applied to them, and *)
(* the chains of Scenarios apply a second operation to the result of the   *)
(* first.                                                                  *)
(***************************************************************************)
\* The least positive value whose double leaves $t
HalfRange == MaxT \div 2 + 1

\* The least value whose square leaves $ut
RootRange == 2 ^ (BITS \div 2)

Numerators == IF signed THEN -MaxN .. MaxN ELSE 0 .. MaxN
Denominators == (1 .. MaxD) \cup {RootRange}
Rationals == {Rational(n, d) : n \in Numerators, d \in Denominators}
Scalars == (IF signed THEN -MaxS .. MaxS ELSE 0 .. MaxS) \cup {HalfRange}

Scenarios ==
    { <<"add_rr", "sub_rr">>,
      <<"mul_rr", "div_rr">>,
      <<"div_euclid", "mul_rr">>,
      <<"add_ff", "sub_ff">>,
      <<"neg_f", "mul_ff">>,
      <<"mat_inverse", "mat_mul">>,
      <<"mat_transpose", "mat_determinant">>,
      <<"c_conj", "c_mul">>,
      <<"q_conj", "q_mul">>,
      <<"q_inverse", "q_mul">>,
      <<"q_mul_q", "q_mul_third">>,
      <<"mat_transpose", "mat_mul_assign">> }

InitFixedIdle == fa = 0 /\ fb = 0 /\ facc = 0 /\ B = 0 /\ fs = 0

InitMatrixIdle == mat = <<>> /\ macc = <<>> /\ mdet = 0

InitComplexIdle == ca = <<>> /\ cacc = <<>> /\ qa = <<>> /\ qacc = <<>> /\ nrm = 0

InitGcdIdle == gin = <<0, 0>> /\ ga = 0 /\ gb = 0 /\ gpc = "idle"

InitAlgebraIdle ==
    cb = <<>> /\ qb = <<>> /\ qc = <<>> /\ va = <<>> /\ vacc = <<>>

InitRationalIdle ==
    /\ a = Rational(0, 1)
    /\ b = Rational(0, 1)
    /\ s = 0
    /\ acc = Rational(0, 1)
    /\ cmp = "none"

InitRational ==
    /\ signed \in BOOLEAN
    /\ checks \in BOOLEAN
    /\ a \in Rationals
    /\ b \in Rationals
    /\ s \in Scalars
    /\ acc = a
    /\ cmp = "none"
    /\ hist = <<>>
    /\ status = "ok"
    /\ InitFixedIdle
    /\ InitMatrixIdle
    /\ InitComplexIdle
    /\ InitGcdIdle
    /\ InitAlgebraIdle

CanApply(name) ==
    /\ status = "ok"
    /\ hist = <<>> \/ Append(hist, name) \in Scenarios

\* The operation `name` yields r: acc takes the value, or the thread panics.
Apply(name, r) ==
    /\ CanApply(name)
    /\ hist' = Append(hist, name)
    /\ IF r.panic
       THEN status' = "panic" /\ acc' = acc
       ELSE status' = "ok" /\ acc' = Rational(r.n, r.d)
    /\ UNCHANGED <<signed, checks, gvars, avars, a, b, s, cmp, fvars, mvars, cvars>>

\* The comparison `name` yields the boolean r.
Test(name, r) ==
    /\ CanApply(name)
    /\ hist' = Append(hist, name)
    /\ cmp' = IF r THEN "true" ELSE "false"
    /\ UNCHANGED <<signed, checks, gvars, avars, a, b, s, acc, status, fvars, mvars, cvars>>

\* The comparison `name` yields the ordering r, or the thread panics.
Compare(name, r) ==
    /\ CanApply(name)
    /\ hist' = Append(hist, name)
    /\ IF r = "panic"
       THEN status' = "panic" /\ cmp' = cmp
       ELSE status' = "ok" /\ cmp' = r
    /\ UNCHANGED <<signed, checks, gvars, avars, a, b, s, acc, fvars, mvars, cvars>>

Reduce == Apply("_reduce", _reduce(acc.n, acc.d))
Inverse == Apply("inverse", inverse(acc))
EqSR == Test("eq_sr", eq_sr(s, acc))
EqRS == Test("eq_rs", eq_rs(acc, s))
EqRR == Test("eq_rr", eq_rr(acc, b))
PartialCmpSR == Compare("partial_cmp_sr", partial_cmp_sr(s, acc))
PartialCmpRS == Compare("partial_cmp_rs", partial_cmp_rs(acc, s))
PartialCmpRR == Compare("partial_cmp_rr", partial_cmp_rr(acc, b))
AddSR == Apply("add_sr", add_sr(s, acc))
AddRS == Apply("add_rs", add_rs(acc, s))
AddRR == Apply("add_rr", add_rr(acc, b))
AddAssignRS == Apply("add_assign_rs", add_assign_rs(acc, s))
AddAssignRR == Apply("add_assign_rr", add_assign_rr(acc, b))
SubSR == Apply("sub_sr", sub_sr(s, acc))
SubRS == Apply("sub_rs", sub_rs(acc, s))
SubRR == Apply("sub_rr", sub_rr(acc, b))
SubAssignRS == Apply("sub_assign_rs", sub_assign_rs(acc, s))
SubAssignRR == Apply("sub_assign_rr", sub_assign_rr(acc, b))
MulSR == Apply("mul_sr", mul_sr(s, acc))
MulRS == Apply("mul_rs", mul_rs(acc, s))
MulRR == Apply("mul_rr", mul_rr(acc, b))
MulAssignRS == Apply("mul_assign_rs", mul_assign_rs(acc, s))
MulAssignRR == Apply("mul_assign_rr", mul_assign_rr(acc, b))
RemRS == Apply("rem_rs", rem_rs(acc, s))
RemRR == Apply("rem_rr", rem_rr(acc, b))
RemAssignRS == Apply("rem_assign_rs", rem_assign_rs(acc, s))
RemAssignRR == Apply("rem_assign_rr", rem_assign_rr(acc, b))
Pow == \E exp \in 0 .. MaxExp : Apply("pow", pow(acc, exp))
DivEuclid == Apply("div_euclid", div_euclid(acc, b))
RemEuclid == Apply("rem_euclid", rem_euclid(acc, b))
DivSR == Apply("div_sr", div_sr(s, acc))
DivRS == Apply("div_rs", div_rs(acc, s))
DivRR == Apply("div_rr", div_rr(acc, b))
DivAssignRS == Apply("div_assign_rs", div_assign_rs(acc, s))
DivAssignRR == Apply("div_assign_rr", div_assign_rr(acc, b))
Neg == signed /\ Apply("neg", neg(acc))

NextRational ==
    \/ Reduce \/ Inverse
    \/ EqSR \/ EqRS \/ EqRR
    \/ PartialCmpSR \/ PartialCmpRS \/ PartialCmpRR
    \/ AddSR \/ AddRS \/ AddRR \/ AddAssignRS \/ AddAssignRR
    \/ SubSR \/ SubRS \/ SubRR \/ SubAssignRS \/ SubAssignRR
    \/ MulSR \/ MulRS \/ MulRR \/ MulAssignRS \/ MulAssignRR
    \/ RemRS \/ RemRR \/ RemAssignRS \/ RemAssignRR
    \/ Pow \/ DivEuclid \/ RemEuclid
    \/ DivSR \/ DivRS \/ DivRR \/ DivAssignRS \/ DivAssignRR
    \/ Neg

SpecRational == InitRational /\ [][NextRational]_vars

(***************************************************************************)
(* Properties of Rational.                                                 *)
(***************************************************************************)
\* gcd(|n|, d) = 1 and d # 0: no k > 1 divides both |n| and d
LowestTerms(x) ==
    /\ x.d > 0
    /\ \A k \in 2 .. x.d : ~(Abs(x.n) % k = 0 /\ x.d % k = 0)

Value(r) == Rational(r.n, r.d)

\* What the last operation did: the value it left, or the panic
Outcome == IF status = "panic" THEN Panic ELSE Ok(acc.n, acc.d)

ArithOps ==
    { "add_sr", "add_rs", "add_rr", "add_assign_rs", "add_assign_rr",
      "sub_sr", "sub_rs", "sub_rr", "sub_assign_rs", "sub_assign_rr",
      "mul_sr", "mul_rs", "mul_rr", "mul_assign_rs", "mul_assign_rr",
      "div_sr", "div_rs", "div_rr", "div_assign_rs", "div_assign_rr",
      "rem_rs", "rem_rr", "rem_assign_rs", "rem_assign_rr",
      "neg", "pow" }

\* The numerator (or scalar) the one operation applied so far divided by;
\* 1 for an operation that does not divide
Divisor ==
    IF hist[1] \in {"div_rr", "div_assign_rr", "div_euclid"} THEN b.n
    ELSE IF hist[1] \in {"div_rs", "div_assign_rs", "rem_rs", "rem_assign_rs"} THEN s
    ELSE IF hist[1] = "div_sr" THEN a.n
    ELSE 1

\* One arithmetic operation has been applied to operands in lowest terms and
\* has returned, without overflow (an overflow panics when checks is TRUE)
\* and without a division by zero.
OneCleanOp ==
    /\ Len(hist) = 1
    /\ hist[1] \in ArithOps
    /\ status = "ok"
    /\ checks
    /\ Divisor # 0
    /\ LowestTerms(a)
    /\ LowestTerms(b)

\* C1: after an arithmetic operation (+, -, *, /, %, unary -, pow, scalar and
\* compound-assignment forms included) on operands in lowest terms, the
\* result is in lowest terms, gcd(|n|, d) = 1, for signed and unsigned types.
C1_ResultInLowestTerms == OneCleanOp => LowestTerms(acc)

\* C2: for valid a and b and without intermediate overflow, (a + b) - b == a
\* under Rational's == operator, for signed and unsigned types.
C2_AddThenSub ==
    ( /\ hist = <<"add_rr", "sub_rr">>
      /\ status = "ok"
      /\ checks
      /\ LowestTerms(a)
      /\ LowestTerms(b) )
    => eq_rr(acc, a)

\* C3: for valid a and b with b's numerator nonzero and without intermediate
\* overflow, (a * b) / b == a under Rational's == operator.
C3_MulThenDiv ==
    ( /\ hist = <<"mul_rr", "div_rr">>
      /\ status = "ok"
      /\ checks
      /\ b.n # 0
      /\ LowestTerms(a)
      /\ LowestTerms(b) )
    => eq_rr(acc, a)

\* C4: for every (n, d) with d > 0, after _reduce gcd(|n|, d) = 1; (2, 4)
\* becomes 1/2 and 0/d becomes 0/1.
C4_ReduceGivesLowestTerms ==
    (hist = <<"_reduce">> /\ status = "ok") =>
        /\ LowestTerms(acc)
        /\ (a.n = 0 => acc = Rational(0, 1))
        /\ (a = Rational(2, 4) => acc = Rational(1, 2))

\* C5: after an operation on operands with denominators > 0 (a division by a
\* zero numerator excluded) the result's denominator is nonzero, also when
\* the product of the denominators exceeds the denominator type.
C5_DenominatorNonzero ==
    ( /\ Len(hist) = 1
      /\ hist[1] \in ArithOps
      /\ status = "ok"
      /\ Divisor # 0 )
    => acc.d > 0

\* C6: a == b holds exactly when a.n * b.d = b.n * a.d, a < b exactly when
\* a.n * b.d < b.n * a.d, and a == b exactly when partial_cmp(a, b) is Equal.
C6_CompareByCrossMultiplication ==
    /\ hist = <<"eq_rr">> =>
          /\ (cmp = "true") <=> (a.n * b.d = b.n * a.d)
          /\ (cmp = "true") <=> (partial_cmp_rr(a, b) = "Equal")
    /\ (hist = <<"partial_cmp_rr">> /\ status = "ok" /\ checks) =>
          ((cmp = "Less") <=> (a.n * b.d < b.n * a.d))

\* The exact quotient num/den of the signed division applied
QuotientNum ==
    IF hist[1] \in {"div_rr", "div_assign_rr"} THEN a.n * b.d
    ELSE IF hist[1] \in {"div_rs", "div_assign_rs"} THEN a.n
    ELSE s * a.d
QuotientDen ==
    IF hist[1] \in {"div_rr", "div_assign_rr"} THEN a.d * b.n
    ELSE IF hist[1] \in {"div_rs", "div_assign_rs"} THEN a.d * s
    ELSE a.n

\* C7: a signed division (a / b, a /= b, a / s, s / a) by a negative divisor
\* folds the sign into the numerator: the result's denominator is positive
\* and n/d is the exact quotient.
C7_SignedDivisionFoldsSign ==
    ( /\ signed
      /\ OneCleanOp
      /\ hist[1] \in {"div_rr", "div_assign_rr", "div_rs", "div_assign_rs", "div_sr"}
      /\ Divisor < 0 )
    => /\ acc.d > 0
       /\ acc.n * QuotientDen = QuotientNum * acc.d

\* The operation applied, with its scalar operand s taken as Rational{s, 1}
AsRationalOp ==
    LET r == Rational(s, 1) IN
    CASE hist[1] = "add_sr" -> add_rr(r, a)
      [] hist[1] = "add_rs" -> add_rr(a, r)
      [] hist[1] = "sub_sr" -> sub_rr(r, a)
      [] hist[1] = "sub_rs" -> sub_rr(a, r)
      [] hist[1] = "mul_sr" -> mul_rr(r, a)
      [] hist[1] = "mul_rs" -> mul_rr(a, r)
      [] hist[1] = "div_sr" -> div_rr(r, a)
      [] hist[1] = "div_rs" -> div_rr(a, r)

OneScalarOp ==
    /\ Len(hist) = 1
    /\ hist[1] \in {"add_sr", "add_rs", "sub_sr", "sub_rs",
                    "mul_sr", "mul_rs", "div_sr", "div_rs"}

\* C8 as stated: for every scalar s and Rational r and each op of + - * /,
\* `s op r` equals `Rational{s, 1} op r` and `r op s` equals
\* `r op Rational{s, 1}`.
C8_ScalarAsRational == OneScalarOp => Outcome = AsRationalOp

\* C8 as amended: whenever both forms return they return the same reduced
\* n and d, and in a build without overflow checks the two forms agree on
\* every input (also on the panic of a division by zero).
C8_ScalarAsRationalWhenBothReturn ==
    OneScalarOp =>
        /\ (status = "ok" /\ ~AsRationalOp.panic) => acc = Value(AsRationalOp)
        /\ ~checks => Outcome = AsRationalOp

\* The signed scalar -1 has been divided by -2/2: the sign went to the
\* numerator, 2/2 was reduced to 1/1, and Rational{-1, 1} / (-2/2) returns.
C8_Witness ==
    /\ signed
    /\ hist = <<"div_sr">>
    /\ status = "ok"
    /\ s = -1
    /\ a = Rational(-2, 2)
    /\ acc = Rational(1, 1)
    /\ ~AsRationalOp.panic

\* C9: div_euclid and rem_euclid have the Euclidean semantics of the integer
\* types: a == div_euclid(a, b) * b + rem_euclid(a, b) when b's numerator is
\* nonzero.
C9_EuclideanDivision ==
    ( /\ hist = <<"div_euclid", "mul_rr">>
      /\ status = "ok"
      /\ checks
      /\ b.n # 0
      /\ LowestTerms(a)
      /\ LowestTerms(b) )
    => LET sum == add_rr(acc, Value(rem_euclid(a, b)))
       IN  ~sum.panic => eq_rr(a, Value(sum))

\* C24: _reduce preserves the value of the rational: if it turns (n, d) into
\* (n', d'), then n * d' == n' * d, for negative n as well.
C24_ReducePreservesValue ==
    (hist = <<"_reduce">> /\ status = "ok") => a.n * acc.d = acc.n * a.d

\* C25: for every Rational a with nonzero numerator, a.inverse() has a
\* strictly positive denominator and the sign of a, and a * a.inverse() is
\* 1/1.
C25_InverseIsReciprocal ==
    (hist = <<"inverse">> /\ a.n # 0)
    => /\ acc.d > 0
       /\ (acc.n < 0) = (a.n < 0)
       /\ mul_rr(a, acc) = Ok(1, 1)

(***************************************************************************)
(* _gcd as it runs: the loop `while b != 0 { c = b; b = a % b; a = c; }`   *)
(* on the locals a and b, one iteration per step, then the return of a.    *)
(***************************************************************************)
GcdArguments == (0 .. MaxG) \cup {MaxUT}

InitGcd ==
    /\ signed = FALSE
    /\ checks = TRUE
    /\ gin \in GcdArguments \X GcdArguments
    /\ ga = gin[1]
    /\ gb = gin[2]
    /\ gpc = "while"
    /\ hist = <<>>
    /\ status = "ok"
    /\ InitRationalIdle
    /\ InitFixedIdle
    /\ InitMatrixIdle
    /\ InitComplexIdle
    /\ InitAlgebraIdle

\* an iteration that forgets `a = c`
GcdIterationKeepsA ==
    /\ gpc = "while"
    /\ gb # 0
    /\ gb' = ga % gb
    /\ ga' = ga
    /\ UNCHANGED <<signed, checks, rvars, fvars, mvars, cvars, avars, hist, status, gin, gpc>>

\* one iteration of the loop
GcdIteration ==
    /\ gpc = "while"
    /\ gb # 0
    /\ gb' = ga % gb
    /\ ga' = gb
    /\ UNCHANGED <<signed, checks, rvars, fvars, mvars, cvars, avars, hist, status, gin, gpc>>

\* the loop condition fails and a is returned
GcdReturn ==
    /\ gpc = "while"
    /\ gb = 0
    /\ gpc' = "return"
    /\ UNCHANGED <<signed, checks, rvars, fvars, mvars, cvars, avars, hist, status, gin, ga, gb>>

NextGcd == GcdIteration \/ GcdReturn

\* The code is sequential: a step that can be taken is taken.
SpecGcd == InitGcd /\ [][NextGcd]_vars /\ WF_vars(NextGcd)

\* g is the greatest common divisor of x and y (0 for x = y = 0)
IsGcd(g, x, y) ==
    IF x = 0 /\ y = 0 THEN g = 0
    ELSE /\ g > 0
         /\ x % g = 0
         /\ y % g = 0
         /\ \A k \in g + 1 .. MaxUT : ~(x % k = 0 /\ y % k = 0)

GcdReturnsGcd ==
    gpc = "return"
    => /\ IsGcd(ga, gin[1], gin[2])
       /\ gin[2] = 0 => ga = gin[1]
       /\ gin[1] = 0 => ga = gin[2]
       /\ ga = _gcd(gin[1], gin[2])

\* C23: _gcd(a, b) terminates for every pair of unsigned values and returns
\* the greatest common divisor of a and b, with _gcd(a, 0) == a and
\* _gcd(0, b) == b.
C23_GcdTerminatesWithGcd == <>(gpc = "return") /\ []GcdReturnsGcd

\* _gcd(12, 8) ran its loop and returned 4
C23_Witness ==
    /\ gpc = "return"
    /\ gin = <<12, 8>>
    /\ ga = 4

(***************************************************************************)
(* Fixed<T,B>: the raw integer self.0 of type T.  An operation yields      *)
(* [raw, panic].                                                           *)
(***************************************************************************)
FixedPanic == [raw |-> 0, panic |-> TRUE]

\* Fixed(v) for the exact value v of an expression of type T
Fixed(v) == IF ~InT(v) /\ checks THEN FixedPanic ELSE [raw |-> AsT(v), panic |-> FALSE]

\* fixed + fixed
add_ff(x, o) == Fixed(x + o)

\* fixed += fixed
add_assign_ff(x, o) == Fixed(x + o)

\* fixed - fixed with the difference clamped to the range of T
sub_ff_saturating(x, o) ==
    LET v == x - o
    IN  [raw |-> IF v < MinT THEN MinT ELSE IF v > MaxT THEN MaxT ELSE v,
         panic |-> FALSE]

\* fixed - fixed
sub_ff(x, o) == Fixed(x - o)

\* fixed -= fixed
sub_assign_ff(x, o) == Fixed(x - o)

\* The value of an expression of type T whose exact value is v, computed
\* with overflow ovf
FixedOf(ovf, v) ==
    IF ovf /\ checks THEN FixedPanic ELSE [raw |-> AsT(v), panic |-> FALSE]

\* `<< n` and `>> n` take the shift amount modulo the width of T; an amount of
\* the width or more is an overflow
ShiftOverflow(n) == n >= BITS

\* x << n: the bits that leave T are lost
Shl(x, n) == AsT(x * 2 ^ (n % BITS))

\* x >> n: the arithmetic shift of a signed T, the logical one of an unsigned T
Shr(x, n) == x \div 2 ^ (n % BITS)

\* x / y on T: a zero divisor and MIN / -1 panic in every build
FixedDiv(ovf, x, y) ==
    IF (ovf /\ checks) \/ y = 0 \/ (signed /\ x = MinT /\ y = -1)
    THEN FixedPanic
    ELSE [raw |-> TDiv(x, y), panic |-> FALSE]

\* fixed * fixed without the shift that rescales the product
mul_ff_unscaled(x, o) == Fixed(x * o)

\* fixed * fixed
mul_ff(x, o) ==
    LET p == x * o
    IN  IF (~InT(p) \/ ShiftOverflow(B)) /\ checks
        THEN FixedPanic
        ELSE [raw |-> Shr(AsT(p), B), panic |-> FALSE]

\* fixed *= fixed
mul_assign_ff(x, o) ==
    LET p == x * o
    IN  IF (~InT(p) \/ ShiftOverflow(B)) /\ checks
        THEN FixedPanic
        ELSE [raw |-> Shr(AsT(p), B), panic |-> FALSE]

\* fixed / fixed
div_ff(x, o) == FixedDiv(ShiftOverflow(B), Shl(x, B), o)

\* fixed /= fixed
div_assign_ff(x, o) == FixedDiv(ShiftOverflow(B), Shl(x, B), o)

\* -fixed without the negation
neg_f_same(x) == Fixed(x)

\* -fixed
neg_f(x) == Fixed(-x)

\* fixed == fixed
eq_ff(x, o) == x = o

\* fixed ? fixed
partial_cmp_ff(x, o) == Ordering(FALSE, x, o)

(***************************************************************************)
(* fixed_impl: the operations between a scalar of type $t and a Fixed.     *)
(* T::from is the identity, T being $t.                                    *)
(***************************************************************************)
\* scalar == fixed
eq_sf(x, o) == Shl(x, B) = o

\* fixed == scalar
eq_fs(x, o) == x = Shl(o, B)

\* scalar ? fixed
partial_cmp_sf(x, o) == Ordering(ShiftOverflow(B), Shl(x, B), o)

\* fixed ? scalar
partial_cmp_fs(x, o) == Ordering(ShiftOverflow(B), x, Shl(o, B))

\* scalar + fixed with the scalar taken as a raw integer
add_sf_unshifted(x, o) == Fixed(x + o)

\* scalar + fixed
add_sf(x, o) ==
    LET v == Shl(x, B) + o IN FixedOf(ShiftOverflow(B) \/ ~InT(v), v)

\* fixed + scalar
add_fs(x, o) ==
    LET v == x + Shl(o, B) IN FixedOf(ShiftOverflow(B) \/ ~InT(v), v)

\* fixed += scalar
add_assign_fs(x, o) ==
    LET v == x + Shl(o, B) IN FixedOf(ShiftOverflow(B) \/ ~InT(v), v)

\* scalar - fixed
sub_sf(x, o) ==
    LET v == Shl(x, B) - o IN FixedOf(ShiftOverflow(B) \/ ~InT(v), v)

\* fixed - scalar
sub_fs(x, o) ==
    LET v == x - Shl(o, B) IN FixedOf(ShiftOverflow(B) \/ ~InT(v), v)

\* fixed -= scalar
sub_assign_fs(x, o) ==
    LET v == x - Shl(o, B) IN FixedOf(ShiftOverflow(B) \/ ~InT(v), v)

\* scalar * fixed
mul_sf(x, o) == Fixed(x * o)

\* fixed * scalar
mul_fs(x, o) == Fixed(x * o)

\* fixed *= scalar
mul_assign_fs(x, o) == Fixed(x * o)

\* scalar / fixed
div_sf(x, o) == FixedDiv(ShiftOverflow(2 * B), Shl(x, 2 * B), o)

\* fixed / scalar
div_fs(x, o) == FixedDiv(FALSE, x, o)

\* fixed /= scalar
div_assign_fs(x, o) == FixedDiv(FALSE, x, o)

(***************************************************************************)
(* The Fixed state machine.  The type parameter B, the operands fa and fb  *)
(* and the scalar fs are chosen at construction.                           *)
(***************************************************************************)
FixedRaws ==
    IF signed
    THEN (MinT .. MinT + MaxRaw) \cup (-MaxRaw .. MaxRaw) \cup (MaxT - MaxRaw .. MaxT)
    ELSE (0 .. MaxRaw) \cup (Half - MaxRaw .. Half + MaxRaw) \cup (MaxT - MaxRaw .. MaxT)

FractionalBits == 1 .. MaxB

FixedScalars ==
    (IF signed THEN -MaxFS .. MaxFS ELSE 0 .. MaxFS) \cup {RootRange, HalfRange, MaxT}

InitFixed ==
    /\ signed \in BOOLEAN
    /\ checks \in BOOLEAN
    /\ B \in FractionalBits
    /\ fa \in FixedRaws
    /\ fb \in FixedRaws
    /\ fs \in FixedScalars
    /\ facc = fa
    /\ hist = <<>>
    /\ status = "ok"
    /\ InitRationalIdle
    /\ InitMatrixIdle
    /\ InitComplexIdle
    /\ InitGcdIdle
    /\ InitAlgebraIdle

\* The Fixed operation `name` yields r: facc takes the value, or the thread
\* panics.
FixedApply(name, r) ==
    /\ CanApply(name)
    /\ hist' = Append(hist, name)
    /\ IF r.panic
       THEN status' = "panic" /\ facc' = facc
       ELSE status' = "ok" /\ facc' = r.raw
    /\ UNCHANGED <<signed, checks, gvars, avars, rvars, fa, fb, B, fs, mvars, cvars>>

\* The Fixed comparison `name` yields the boolean r.
FixedTest(name, r) ==
    /\ CanApply(name)
    /\ hist' = Append(hist, name)
    /\ cmp' = IF r THEN "true" ELSE "false"
    /\ UNCHANGED <<signed, checks, gvars, avars, a, b, s, acc, status, fvars, mvars, cvars>>

\* The Fixed comparison `name` yields the ordering r, or the thread panics.
FixedCompare(name, r) ==
    /\ CanApply(name)
    /\ hist' = Append(hist, name)
    /\ IF r = "panic"
       THEN status' = "panic" /\ cmp' = cmp
       ELSE status' = "ok" /\ cmp' = r
    /\ UNCHANGED <<signed, checks, gvars, avars, a, b, s, acc, fvars, mvars, cvars>>

AddFF == FixedApply("add_ff", add_ff(facc, fb))
AddAssignFF == FixedApply("add_assign_ff", add_assign_ff(facc, fb))
SubFF == FixedApply("sub_ff", sub_ff(facc, fb))
SubAssignFF == FixedApply("sub_assign_ff", sub_assign_ff(facc, fb))
MulFF == FixedApply("mul_ff", mul_ff(facc, fb))
MulAssignFF == FixedApply("mul_assign_ff", mul_assign_ff(facc, fb))
DivFF == FixedApply("div_ff", div_ff(facc, fb))
DivAssignFF == FixedApply("div_assign_ff", div_assign_ff(facc, fb))
NegF == signed /\ FixedApply("neg_f", neg_f(facc))
EqFF == FixedTest("eq_ff", eq_ff(facc, fb))
PartialCmpFF == FixedCompare("partial_cmp_ff", partial_cmp_ff(facc, fb))
EqSF == FixedTest("eq_sf", eq_sf(fs, facc))
EqFS == FixedTest("eq_fs", eq_fs(facc, fs))
PartialCmpSF == FixedCompare("partial_cmp_sf", partial_cmp_sf(fs, facc))
PartialCmpFS == FixedCompare("partial_cmp_fs", partial_cmp_fs(facc, fs))
AddSF == FixedApply("add_sf", add_sf(fs, facc))
AddFS == FixedApply("add_fs", add_fs(facc, fs))
AddAssignFS == FixedApply("add_assign_fs", add_assign_fs(facc, fs))
SubSF == FixedApply("sub_sf", sub_sf(fs, facc))
SubFS == FixedApply("sub_fs", sub_fs(facc, fs))
SubAssignFS == FixedApply("sub_assign_fs", sub_assign_fs(facc, fs))
MulSF == FixedApply("mul_sf", mul_sf(fs, facc))
MulFS == FixedApply("mul_fs", mul_fs(facc, fs))
MulAssignFS == FixedApply("mul_assign_fs", mul_assign_fs(facc, fs))
DivSF == FixedApply("div_sf", div_sf(fs, facc))
DivFS == FixedApply("div_fs", div_fs(facc, fs))
DivAssignFS == FixedApply("div_assign_fs", div_assign_fs(facc, fs))

NextFixed ==
    \/ AddFF \/ AddAssignFF \/ SubFF \/ SubAssignFF
    \/ MulFF \/ MulAssignFF \/ DivFF \/ DivAssignFF \/ NegF
    \/ EqFF \/ PartialCmpFF
    \/ EqSF \/ EqFS \/ PartialCmpSF \/ PartialCmpFS
    \/ AddSF \/ AddFS \/ AddAssignFS
    \/ SubSF \/ SubFS \/ SubAssignFS
    \/ MulSF \/ MulFS \/ MulAssignFS
    \/ DivSF \/ DivFS \/ DivAssignFS

SpecFixed == InitFixed /\ [][NextFixed]_vars

(***************************************************************************)
(* Properties of Fixed.                                                    *)
(***************************************************************************)
\* C10: (a + b) - b == a exactly for all Fixed values a and b over the same
\* backing integer, also when a + b wraps around the width of T.
C10_AddThenSubIsExact ==
    (hist = <<"add_ff", "sub_ff">> /\ status = "ok") => facc = fa

\* a + b left the range of T and wrapped, and subtracting b gave a back
C10_Witness ==
    /\ hist = <<"add_ff", "sub_ff">>
    /\ status = "ok"
    /\ ~InT(fa + fb)
    /\ fb # 0
    /\ facc = fa

\* C11: fixed * fixed returns (a.raw * b.raw) >> B, the floor of the product
\* over 2^B, and fixed / fixed returns (a.raw << B) / b.raw, the quotient of
\* the rescaled dividend truncated toward zero, when nothing overflows: both
\* results keep B fractional bits.
C11_MulDivKeepFractionalBits ==
    /\ (hist = <<"mul_ff">> /\ status = "ok" /\ InT(fa * fb))
       => /\ facc * 2 ^ B <= fa * fb
          /\ fa * fb < (facc + 1) * 2 ^ B
    /\ (hist = <<"div_ff">> /\ status = "ok" /\ InT(fa * 2 ^ B))
       => /\ Abs(facc) * Abs(fb) <= Abs(fa) * 2 ^ B
          /\ Abs(fa) * 2 ^ B < (Abs(facc) + 1) * Abs(fb)
          /\ facc # 0 => (facc < 0) = ((fa < 0) # (fb < 0))

\* a negative product that is no multiple of 2^B was shifted down to its floor
C11_Witness ==
    /\ hist = <<"mul_ff">>
    /\ status = "ok"
    /\ fa * fb < 0
    /\ InT(fa * fb)
    /\ (fa * fb) % 2 ^ B # 0
    /\ facc * 2 ^ B < fa * fb

MixedArith ==
    {"add_sf", "add_fs", "sub_sf", "sub_fs", "mul_sf", "mul_fs", "div_sf", "div_fs"}

MixedCompare == {"eq_sf", "eq_fs", "partial_cmp_sf", "partial_cmp_fs"}

\* The operation of hist on the Fixed whose raw integer is fs << B and on fa
PromotedResult ==
    LET p == Shl(fs, B)
    IN  CASE hist = <<"add_sf">> -> add_ff(p, fa)
          [] hist = <<"add_fs">> -> add_ff(fa, p)
          [] hist = <<"sub_sf">> -> sub_ff(p, fa)
          [] hist = <<"sub_fs">> -> sub_ff(fa, p)
          [] hist = <<"mul_sf">> -> mul_ff(p, fa)
          [] hist = <<"mul_fs">> -> mul_ff(fa, p)
          [] hist = <<"div_sf">> -> div_ff(p, fa)
          [] hist = <<"div_fs">> -> div_ff(fa, p)

PromotedCompare ==
    LET p == Shl(fs, B)
    IN  CASE hist = <<"eq_sf">> -> IF eq_ff(p, fa) THEN "true" ELSE "false"
          [] hist = <<"eq_fs">> -> IF eq_ff(fa, p) THEN "true" ELSE "false"
          [] hist = <<"partial_cmp_sf">> -> partial_cmp_ff(p, fa)
          [] hist = <<"partial_cmp_fs">> -> partial_cmp_ff(fa, p)

\* The state is the outcome r of a Fixed operation
FixedOutcomeIs(r) ==
    IF r.panic THEN status = "panic" ELSE status = "ok" /\ facc = r.raw

\* No shift and no product of the promoted form of hist leaves T
PromotedFits ==
    CASE hist \in {<<"mul_sf">>, <<"mul_fs">>} ->
            InT(fs * 2 ^ B) /\ InT(fs * 2 ^ B * fa)
      [] hist = <<"div_sf">> -> ~ShiftOverflow(2 * B) /\ InT(fs * 2 ^ (2 * B))
      [] hist = <<"div_fs">> -> InT(fs * 2 ^ B) /\ InT(fa * 2 ^ B)
      [] OTHER -> TRUE

C28_NoFalseEquality ==
    (hist \in {<<"eq_sf">>, <<"eq_fs">>} /\ cmp = "true") => fa = fs * 2 ^ B

\* -a and a * b fit T, as does the negation of every product involved
NoNegMulOverflow ==
    /\ InT(-fa)
    /\ InT(fa * fb)
    /\ InT(-(fa * fb))

\* C29: for all signed Fixed values a and b whose product does not overflow,
\* (-a) * b == -(a * b).
C29_MulSignSymmetric ==
    (hist = <<"neg_f", "mul_ff">> /\ status = "ok" /\ NoNegMulOverflow)
    => facc = neg_f(mul_ff(fa, fb).raw).raw

\* C29, amended: for all signed Fixed values a and b whose product does not
\* overflow, (-a) * b == -(a * b) when a.raw * b.raw is a multiple of 2^B;
\* otherwise (-a) * b is -(a * b) less one unit of the last place, the shift
\* rounding both products down.
C29_MulSignSymmetricUpToFloor ==
    (hist = <<"neg_f", "mul_ff">> /\ status = "ok" /\ NoNegMulOverflow)
    => facc = IF (fa * fb) % 2 ^ B = 0
              THEN neg_f(mul_ff(fa, fb).raw).raw
              ELSE neg_f(mul_ff(fa, fb).raw).raw - 1

\* a nonzero product that is a multiple of 2^B was negated exactly
C29_Witness ==
    /\ hist = <<"neg_f", "mul_ff">>
    /\ status = "ok"
    /\ NoNegMulOverflow
    /\ fa * fb # 0
    /\ (fa * fb) % 2 ^ B = 0
    /\ facc * 2 ^ B = -(fa * fb)

(***************************************************************************)
(* Mat2x2<T>, Mat3x3<T> and Mat4x4<T>: the rows x, y, z, w, each a Vec2,    *)
(* Vec3 or Vec4 with the components x, y, z, w.  The scalar T is an integer *)
(* wide enough for every value of the model, so that no operation          *)
(* overflows; its `/` truncates toward zero.                               *)
(***************************************************************************)
\* From<[T; 4]> for Mat2x2
Mat2x2_from(array) ==
    [x |-> [x |-> array[1], y |-> array[2]],
     y |-> [x |-> array[3], y |-> array[4]]]

\* Mat2x2::transpose
Mat2x2_transpose(self) ==
    [x |-> [x |-> self.x.x, y |-> self.y.x],
     y |-> [x |-> self.x.y, y |-> self.y.y]]

\* Mat2x2 / scalar
Mat2x2_div(self, other) ==
    [x |-> [x |-> TDiv(self.x.x, other), y |-> TDiv(self.x.y, other)],
     y |-> [x |-> TDiv(self.y.x, other), y |-> TDiv(self.y.y, other)]]

\* Mat2x2 * Mat2x2
Mat2x2_mul(self, other) ==
    [x |-> [x |-> self.x.x * other.x.x + self.x.y * other.y.x,
           y |-> self.x.x * other.x.y + self.x.y * other.y.y],
     y |-> [x |-> self.y.x * other.x.x + self.y.y * other.y.x,
           y |-> self.y.x * other.x.y + self.y.y * other.y.y]]

\* xx * yy + xy * yx, the permanent
Mat2x2_permanent(self) ==
    self.x.x * self.y.y + self.x.y * self.y.x

\* Mat2x2::determinant
Mat2x2_determinant(self) ==
    LET xx  == self.x.x
        xy  == self.x.y
        yx  == self.y.x
        yy  == self.y.y
        axx == yy
        axy == -yx
    IN  xx * axx + xy * axy

\* Mat2x2::inverse
Mat2x2_inverse(self) ==
    LET xx  == self.x.x
        xy  == self.x.y
        yx  == self.y.x
        yy  == self.y.y
        axx == yy
        axy == -yx
        det == xx * axx + xy * axy
        ayx == -xy
        ayy == xx
    IN  IF det = 0
        THEN self
        ELSE Mat2x2_div(
                 [x |-> [x |-> axx, y |-> axy],
                  y |-> [x |-> ayx, y |-> ayy]],
                 det)

\* Mat3x3::transpose
Mat3x3_transpose(self) ==
    [x |-> [x |-> self.x.x, y |-> self.y.x, z |-> self.z.x],
     y |-> [x |-> self.x.y, y |-> self.y.y, z |-> self.z.y],
     z |-> [x |-> self.x.z, y |-> self.y.z, z |-> self.z.z]]

\* Mat3x3 / scalar
Mat3x3_div(self, other) ==
    [x |-> [x |-> TDiv(self.x.x, other), y |-> TDiv(self.x.y, other), z |-> TDiv(self.x.z, other)],
     y |-> [x |-> TDiv(self.y.x, other), y |-> TDiv(self.y.y, other), z |-> TDiv(self.y.z, other)],
     z |-> [x |-> TDiv(self.z.x, other), y |-> TDiv(self.z.y, other), z |-> TDiv(self.z.z, other)]]

\* Mat3x3 * Mat3x3
Mat3x3_mul(self, other) ==
    [x |-> [x |-> self.x.x * other.x.x + self.x.y * other.y.x + self.x.z * other.z.x,
           y |-> self.x.x * other.x.y + self.x.y * other.y.y + self.x.z * other.z.y,
           z |-> self.x.x * other.x.z + self.x.y * other.y.z + self.x.z * other.z.z],
     y |-> [x |-> self.y.x * other.x.x + self.y.y * other.y.x + self.y.z * other.z.x,
           y |-> self.y.x * other.x.y + self.y.y * other.y.y + self.y.z * other.z.y,
           z |-> self.y.x * other.x.z + self.y.y * other.y.z + self.y.z * other.z.z],
     z |-> [x |-> self.z.x * other.x.x + self.z.y * other.y.x + self.z.z * other.z.x,
           y |-> self.z.x * other.x.y + self.z.y * other.y.y + self.z.z * other.z.y,
           z |-> self.z.x * other.x.z + self.z.y * other.y.z + self.z.z * other.z.z]]

\* Mat3x3::determinant
Mat3x3_determinant(self) ==
    LET xx  == self.x.x
        xy  == self.x.y
        xz  == self.x.z
        yx  == self.y.x
        yy  == self.y.y
        yz  == self.y.z
        zx  == self.z.x
        zy  == self.z.y
        zz  == self.z.z
        axx == yy * zz - zy * yz
        axy == -(yz * zx - zz * yx)
        axz == yx * zy - zx * yy
    IN  xx * axx + xy * axy + xz * axz

\* Mat3x3::inverse
Mat3x3_inverse(self) ==
    LET xx  == self.x.x
        xy  == self.x.y
        xz  == self.x.z
        yx  == self.y.x
        yy  == self.y.y
        yz  == self.y.z
        zx  == self.z.x
        zy  == self.z.y
        zz  == self.z.z
        axx == yy * zz - zy * yz
        axy == -(yz * zx - zz * yx)
        axz == yx * zy - zx * yy
        det == xx * axx + xy * axy + xz * axz
        ayx == -(zy * xz - xy * zz)
        ayy == zz * xx - xz * zx
        ayz == -(zx * xy - xx * zy)
        azx == xy * yz - yy * xz
        azy == -(xz * yx - yz * xx)
        azz == xx * yy - yx * xy
    IN  IF det = 0
        THEN self
        ELSE Mat3x3_div(
                 [x |-> [x |-> axx, y |-> axy, z |-> axz],
                  y |-> [x |-> ayx, y |-> ayy, z |-> ayz],
                  z |-> [x |-> azx, y |-> azy, z |-> azz]],
                 det)

\* Mat4x4::transpose
Mat4x4_transpose(self) ==
    [x |-> [x |-> self.x.x, y |-> self.y.x, z |-> self.z.x, w |-> self.w.x],
     y |-> [x |-> self.x.y, y |-> self.y.y, z |-> self.z.y, w |-> self.w.y],
     z |-> [x |-> self.x.z, y |-> self.y.z, z |-> self.z.z, w |-> self.w.z],
     w |-> [x |-> self.x.w, y |-> self.y.w, z |-> self.z.w, w |-> self.w.w]]

\* Mat4x4 / scalar
Mat4x4_div(self, other) ==
    [x |-> [x |-> TDiv(self.x.x, other), y |-> TDiv(self.x.y, other), z |-> TDiv(self.x.z, other), w |-> TDiv(self.x.w, other)],
     y |-> [x |-> TDiv(self.y.x, other), y |-> TDiv(self.y.y, other), z |-> TDiv(self.y.z, other), w |-> TDiv(self.y.w, other)],
     z |-> [x |-> TDiv(self.z.x, other), y |-> TDiv(self.z.y, other), z |-> TDiv(self.z.z, other), w |-> TDiv(self.z.w, other)],
     w |-> [x |-> TDiv(self.w.x, other), y |-> TDiv(self.w.y, other), z |-> TDiv(self.w.z, other), w |-> TDiv(self.w.w, other)]]

\* Mat4x4 * Mat4x4
Mat4x4_mul(self, other) ==
    [x |-> [x |-> self.x.x * other.x.x + self.x.y * other.y.x + self.x.z * other.z.x + self.x.w * other.w.x,
           y |-> self.x.x * other.x.y + self.x.y * other.y.y + self.x.z * other.z.y + self.x.w * other.w.y,
           z |-> self.x.x * other.x.z + self.x.y * other.y.z + self.x.z * other.z.z + self.x.w * other.w.z,
           w |-> self.x.x * other.x.w + self.x.y * other.y.w + self.x.z * other.z.w + self.x.w * other.w.w],
     y |-> [x |-> self.y.x * other.x.x + self.y.y * other.y.x + self.y.z * other.z.x + self.y.w * other.w.x,
           y |-> self.y.x * other.x.y + self.y.y * other.y.y + self.y.z * other.z.y + self.y.w * other.w.y,
           z |-> self.y.x * other.x.z + self.y.y * other.y.z + self.y.z * other.z.z + self.y.w * other.w.z,
           w |-> self.y.x * other.x.w + self.y.y * other.y.w + self.y.z * other.z.w + self.y.w * other.w.w],
     z |-> [x |-> self.z.x * other.x.x + self.z.y * other.y.x + self.z.z * other.z.x + self.z.w * other.w.x,
           y |-> self.z.x * other.x.y + self.z.y * other.y.y + self.z.z * other.z.y + self.z.w * other.w.y,
           z |-> self.z.x * other.x.z + self.z.y * other.y.z + self.z.z * other.z.z + self.z.w * other.w.z,
           w |-> self.z.x * other.x.w + self.z.y * other.y.w + self.z.z * other.z.w + self.z.w * other.w.w],
     w |-> [x |-> self.w.x * other.x.x + self.w.y * other.y.x + self.w.z * other.z.x + self.w.w * other.w.x,
           y |-> self.w.x * other.x.y + self.w.y * other.y.y + self.w.z * other.z.y + self.w.w * other.w.y,
           z |-> self.w.x * other.x.z + self.w.y * other.y.z + self.w.z * other.z.z + self.w.w * other.w.z,
           w |-> self.w.x * other.x.w + self.w.y * other.y.w + self.w.z * other.z.w + self.w.w * other.w.w]]

\* Mat4x4::determinant
Mat4x4_determinant(self) ==
    LET xx  == self.x.x
        xy  == self.x.y
        xz  == self.x.z
        xw  == self.x.w
        yx  == self.y.x
        yy  == self.y.y
        yz  == self.y.z
        yw  == self.y.w
        zx  == self.z.x
        zy  == self.z.y
        zz  == self.z.z
        zw  == self.z.w
        wx  == self.w.x
        wy  == self.w.y
        wz  == self.w.z
        ww  == self.w.w
        axx == yy * (zz * ww - wz * zw) - yz * (zw * wy - ww * zy) + yw * (zy * wz - wy * zz)
        axy == -(yz * (zw * wx - ww * zx) - yw * (zx * wz - wx * zz) + yx * (zz * ww - wz * zw))
        axz == yw * (zx * wy - wx * zy) - yx * (zy * ww - wy * zw) + yy * (zw * wx - ww * zx)
        axw == -(yx * (zy * wz - wy * zz) - yy * (zz * wx - wz * wx) + yz * (wx * wy - wx * zy))
    IN  xx * axx + xy * axy + xz * axz + xw * axw

\* Mat4x4::inverse
Mat4x4_inverse(self) ==
    LET xx  == self.x.x
        xy  == self.x.y
        xz  == self.x.z
        xw  == self.x.w
        yx  == self.y.x
        yy  == self.y.y
        yz  == self.y.z
        yw  == self.y.w
        zx  == self.z.x
        zy  == self.z.y
        zz  == self.z.z
        zw  == self.z.w
        wx  == self.w.x
        wy  == self.w.y
        wz  == self.w.z
        ww  == self.w.w
        axx == yy * (zz * ww - wz * zw) - yz * (zw * wy - ww * zy) + yw * (zy * wz - wy * zz)
        axy == -(yz * (zw * wx - ww * zx) - yw * (zx * wz - wx * zz) + yx * (zz * ww - wz * zw))
        axz == yw * (zx * wy - wx * zy) - yx * (zy * ww - wy * zw) + yy * (zw * wx - ww * zx)
        axw == -(yx * (zy * wz - wy * zz) - yy * (zz * wx - wz * wx) + yz * (wx * wy - wx * zy))
        det == xx * axx + xy * axy + xz * axz + xw * axw
        ayx == -(zy * (wz * xw - xz * ww) - zz * (ww * xy - xw * wy) + zw * (wy * xz - xy * wz))
        ayy == zz * (ww * xx - xw * wx) - zw * (wx * xz - xx * wz) + zx * (wz * xw - xz * ww)
        ayz == -(zw * (wx * xy - xx * wy) - zx * (wy * xw - xy * ww) + zy * (ww * xx - xw * wx))
        ayw == zx * (wy * xz - xy * wz) - zy * (wz * xx - xz * wx) + zz * (wx * xy - xx * wy)
        azx == wy * (xz * yw - yz * xw) - wz * (xw * yy - yz * xy) + ww * (xy * yz - yy * xz)
        azy == -(wz * (xw * yx - yw * xx) - ww * (xx * yz - yx * xz) + wx * (xz * yw - yz * xw))
        azz == ww * (xx * yy - yx * xy) - wx * (xy * yw - yy * xw) + wy * (xw * yx - yw * xx)
        azw == -(wx * (xy * yz - yy * xz) - wy * (xz * yx - yz * xx) + wz * (xx * yy - yx * xy))
        awx == -(xy * (yz * zw - zz * yw) - xz * (yw * zy - zw * yy) + xw * (yy * zz - zy * yz))
        awy == xz * (yw * zx - zw * yx) - xw * (yx * zz - zx * yz) + xx * (yz * zw - zz * yw)
        awz == -(xw * (yx * zy - zx * yy) - xx * (yy * zw - zy * yw) + xy * (yw * zx - zw * yx))
        aww == xx * (yy * zz - zy * yz) - xy * (yz * zx - zz * yx) + xz * (yx * zy - zx * yy)
    IN  IF det = 0
        THEN self
        ELSE Mat4x4_div(
                 [x |-> [x |-> axx, y |-> axy, z |-> axz, w |-> axw],
                  y |-> [x |-> ayx, y |-> ayy, z |-> ayz, w |-> ayw],
                  z |-> [x |-> azx, y |-> azy, z |-> azz, w |-> azw],
                  w |-> [x |-> awx, y |-> awy, z |-> awz, w |-> aww]],
                 det)

(***************************************************************************)
(* The matrix state machine.  The matrix mat is chosen at construction;    *)
(* transpose, determinant, inverse and mat * (the register) are applied.   *)
(***************************************************************************)
Axes == <<"x", "y", "z", "w">>

AxesOf(n) == {Axes[i] : i \in 1 .. n}

\* The number of rows of the matrix M
Dim(M) == Cardinality(DOMAIN M)

Mat2x2s == [AxesOf(2) -> [AxesOf(2) -> -MaxM .. MaxM]]
Mat3x3s == [AxesOf(3) -> [AxesOf(3) -> {-1, 0, 1}]]
Mat4x4s == [AxesOf(4) -> [AxesOf(4) -> {0, 1}]]

InitMatrix ==
    /\ signed = TRUE
    /\ checks = TRUE
    /\ mat \in Mat2x2s \cup Mat3x3s \cup Mat4x4s
    /\ macc = mat
    /\ mdet = 0
    /\ hist = <<>>
    /\ status = "ok"
    /\ InitRationalIdle
    /\ InitFixedIdle
    /\ InitComplexIdle
    /\ InitGcdIdle
    /\ InitAlgebraIdle

\* The matrix operation `name` yields the matrix r.
MatApply(name, r) ==
    /\ CanApply(name)
    /\ hist' = Append(hist, name)
    /\ macc' = r
    /\ UNCHANGED <<signed, checks, gvars, avars, rvars, fvars, status, mat, mdet, cvars>>

\* The matrix operation `name` yields the scalar r.
MatMeasure(name, r) ==
    /\ CanApply(name)
    /\ hist' = Append(hist, name)
    /\ mdet' = r
    /\ UNCHANGED <<signed, checks, gvars, avars, rvars, fvars, status, mat, macc, cvars>>

Mat2x2Transpose == Dim(mat) = 2 /\ MatApply("mat_transpose", Mat2x2_transpose(macc))
Mat3x3Transpose == Dim(mat) = 3 /\ MatApply("mat_transpose", Mat3x3_transpose(macc))
Mat4x4Transpose == Dim(mat) = 4 /\ MatApply("mat_transpose", Mat4x4_transpose(macc))
Mat2x2Determinant ==
    Dim(mat) = 2 /\ MatMeasure("mat_determinant", Mat2x2_determinant(macc))
Mat3x3Determinant ==
    Dim(mat) = 3 /\ MatMeasure("mat_determinant", Mat3x3_determinant(macc))
Mat4x4Determinant ==
    Dim(mat) = 4 /\ MatMeasure("mat_determinant", Mat4x4_determinant(macc))
Mat2x2Inverse == Dim(mat) = 2 /\ MatApply("mat_inverse", Mat2x2_inverse(macc))
Mat3x3Inverse == Dim(mat) = 3 /\ MatApply("mat_inverse", Mat3x3_inverse(macc))
Mat4x4Inverse == Dim(mat) = 4 /\ MatApply("mat_inverse", Mat4x4_inverse(macc))
Mat2x2Mul == Dim(mat) = 2 /\ MatApply("mat_mul", Mat2x2_mul(mat, macc))
Mat3x3Mul == Dim(mat) = 3 /\ MatApply("mat_mul", Mat3x3_mul(mat, macc))
Mat4x4Mul == Dim(mat) = 4 /\ MatApply("mat_mul", Mat4x4_mul(mat, macc))

NextMatrix ==
    \/ Mat2x2Transpose \/ Mat3x3Transpose \/ Mat4x4Transpose
    \/ Mat2x2Determinant \/ Mat3x3Determinant \/ Mat4x4Determinant
    \/ Mat2x2Inverse \/ Mat3x3Inverse \/ Mat4x4Inverse
    \/ Mat2x2Mul \/ Mat3x3Mul \/ Mat4x4Mul

SpecMatrix == InitMatrix /\ [][NextMatrix]_vars

(***************************************************************************)
(* Properties of the matrices.                                             *)
(***************************************************************************)
\* The component of M in row i and column j
Entry(M, i, j) == M[Axes[i]][Axes[j]]

PermutationsOf(n) ==
    {f \in [1 .. n -> 1 .. n] : \A i, j \in 1 .. n : i # j => f[i] # f[j]}

\* +1 for an even permutation, -1 for an odd one
Sign(f, n) ==
    LET inversions == {ij \in (1 .. n) \X (1 .. n) : ij[1] < ij[2] /\ f[ij[1]] > f[ij[2]]}
    IN  IF Cardinality(inversions) % 2 = 0 THEN 1 ELSE -1

RECURSIVE Product(_, _, _)
Product(M, f, i) == IF i = 0 THEN 1 ELSE Entry(M, i, f[i]) * Product(M, f, i - 1)

RECURSIVE SignedSum(_, _, _)
SignedSum(M, F, n) ==
    IF F = {} THEN 0
    ELSE LET f == CHOOSE g \in F : TRUE
         IN  Sign(f, n) * Product(M, f, n) + SignedSum(M, F \ {f}, n)

\* The determinant of M: the signed sum over the permutations
StandardDeterminant(M) == SignedSum(M, PermutationsOf(Dim(M)), Dim(M))

Identity(n) == [r \in AxesOf(n) |-> [k \in AxesOf(n) |-> IF r = k THEN 1 ELSE 0]]

\* C15: Mat2x2::determinant returns x.x * y.y - x.y * y.x for every matrix;
\* for the row-major matrix [[1,2],[3,4]] it returns -2.
C15_Mat2x2Determinant ==
    (hist = <<"mat_determinant">> /\ Dim(mat) = 2)
    => /\ mdet = mat.x.x * mat.y.y - mat.x.y * mat.y.x
       /\ mat = Mat2x2_from(<<1, 2, 3, 4>>) => mdet = -2

\* the determinant of [[1,2],[3,4]] was taken and is -2
C15_Witness ==
    /\ hist = <<"mat_determinant">>
    /\ mat = Mat2x2_from(<<1, 2, 3, 4>>)
    /\ mdet = -2

\* C16: Mat3x3::determinant returns the standard 3x3 determinant, the signed
\* sum over the six permutations, for every matrix.
C16_Mat3x3Determinant ==
    (hist = <<"mat_determinant">> /\ Dim(mat) = 3)
    => mdet = StandardDeterminant(mat)

\* C17: Mat4x4::determinant returns the standard 4x4 determinant for every
\* matrix.
C17_Mat4x4Determinant ==
    (hist = <<"mat_determinant">> /\ Dim(mat) = 4)
    => mdet = StandardDeterminant(mat)

\* C13: for every Mat2x2, Mat3x3 and Mat4x4 M whose determinant is zero,
\* M.inverse() returns M unchanged.
C13_SingularInverseIsIdentityOp ==
    (hist = <<"mat_inverse">> /\ StandardDeterminant(mat) = 0) => macc = mat

\* C14: for every square matrix M of integers with determinant 1 or -1,
\* M * M.inverse() is the identity matrix.
C14_InverseIsRightInverse ==
    (hist = <<"mat_inverse", "mat_mul">> /\ StandardDeterminant(mat) \in {1, -1})
    => macc = Identity(Dim(mat))

\* M.determinant() for the type of M
DeterminantOf(M) ==
    CASE Dim(M) = 2 -> Mat2x2_determinant(M)
      [] Dim(M) = 3 -> Mat3x3_determinant(M)
      [] Dim(M) = 4 -> Mat4x4_determinant(M)

\* C30: the determinant is invariant under transpose: for every Mat2x2,
\* Mat3x3 and Mat4x4 M, M.transpose().determinant() == M.determinant().
C30_DeterminantOfTranspose ==
    hist = <<"mat_transpose", "mat_determinant">> => mdet = DeterminantOf(mat)

(***************************************************************************)
(* Complex<T> and Quaternion<T>.  The scalar T is a float; the model        *)
(* computes it exactly, as the fraction n/d in lowest terms with d > 0,    *)
(* which is what the float operations return whenever they do not round.   *)
(* 0/0 is NaN.                                                             *)
(***************************************************************************)
RECURSIVE Gcd(_, _)
Gcd(x, y) == IF y = 0 THEN x ELSE Gcd(y, x % y)

NaN == [n |-> 0, d |-> 0]

IsNaN(x) == x.d = 0

\* The float n/d, d # 0
Float(n, d) ==
    LET g == Gcd(Abs(n), Abs(d))
    IN  [n |-> (IF d < 0 THEN -n ELSE n) \div g, d |-> Abs(d) \div g]

FloatAdd(x, y) ==
    IF IsNaN(x) \/ IsNaN(y) THEN NaN ELSE Float(x.n * y.d + y.n * x.d, x.d * y.d)

FloatSub(x, y) ==
    IF IsNaN(x) \/ IsNaN(y) THEN NaN ELSE Float(x.n * y.d - y.n * x.d, x.d * y.d)

FloatMul(x, y) ==
    IF IsNaN(x) \/ IsNaN(y) THEN NaN ELSE Float(x.n * y.n, x.d * y.d)

\* x / y; the model divides by zero only in 0.0 / 0.0, which is NaN
FloatDiv(x, y) ==
    IF IsNaN(x) \/ IsNaN(y) \/ y.n = 0 THEN NaN ELSE Float(x.n * y.d, x.d * y.n)

FloatNeg(x) == IF IsNaN(x) THEN NaN ELSE Float(-x.n, x.d)

\* Complex::conj without the negation
Complex_conj_same(self) == [r |-> self.r, i |-> self.i]

\* Complex::conj
Complex_conj(self) == [r |-> self.r, i |-> FloatNeg(self.i)]

\* Complex::norm_sqr
Complex_norm_sqr(self) ==
    FloatAdd(FloatMul(self.r, self.r), FloatMul(self.i, self.i))

\* complex * complex
Complex_mul(self, other) ==
    [r |-> FloatSub(FloatMul(self.r, other.r), FloatMul(self.i, other.i)),
     i |-> FloatAdd(FloatMul(self.r, other.i), FloatMul(self.i, other.r))]

\* Quaternion::conj
Quaternion_conj(self) ==
    [r |-> self.r,
     i |-> FloatNeg(self.i),
     j |-> FloatNeg(self.j),
     k |-> FloatNeg(self.k)]

\* Quaternion::inverse without the conjugation
Quaternion_inverse_unconjugated(self) ==
    LET f == FloatAdd(FloatAdd(FloatAdd(FloatMul(self.r, self.r),
                                        FloatMul(self.i, self.i)),
                               FloatMul(self.j, self.j)),
                      FloatMul(self.k, self.k))
    IN  [r |-> FloatDiv(self.r, f),
         i |-> FloatDiv(self.i, f),
         j |-> FloatDiv(self.j, f),
         k |-> FloatDiv(self.k, f)]

\* Quaternion::inverse
Quaternion_inverse(self) ==
    LET f == FloatAdd(FloatAdd(FloatAdd(FloatMul(self.r, self.r),
                                        FloatMul(self.i, self.i)),
                               FloatMul(self.j, self.j)),
                      FloatMul(self.k, self.k))
    IN  [r |-> FloatDiv(self.r, f),
         i |-> FloatDiv(FloatNeg(self.i), f),
         j |-> FloatDiv(FloatNeg(self.j), f),
         k |-> FloatDiv(FloatNeg(self.k), f)]

\* a product taken component by component
Quaternion_mul_componentwise(self, other) ==
    [r |-> FloatMul(self.r, other.r),
     i |-> FloatMul(self.i, other.i),
     j |-> FloatMul(self.j, other.j),
     k |-> FloatMul(self.k, other.k)]

\* quaternion * quaternion
Quaternion_mul(self, other) ==
    [r |-> FloatSub(FloatSub(FloatSub(FloatMul(self.r, other.r),
                                      FloatMul(self.i, other.i)),
                             FloatMul(self.j, other.j)),
                    FloatMul(self.k, other.k)),
     i |-> FloatSub(FloatAdd(FloatAdd(FloatMul(self.r, other.i),
                                      FloatMul(self.i, other.r)),
                             FloatMul(self.j, other.k)),
                    FloatMul(self.k, other.j)),
     j |-> FloatAdd(FloatAdd(FloatSub(FloatMul(self.r, other.j),
                                      FloatMul(self.i, other.k)),
                             FloatMul(self.j, other.r)),
                    FloatMul(self.k, other.i)),
     k |-> FloatAdd(FloatSub(FloatAdd(FloatMul(self.r, other.k),
                                      FloatMul(self.i, other.j)),
                             FloatMul(self.j, other.i)),
                    FloatMul(self.k, other.r))]

(***************************************************************************)
(* The Complex and Quaternion state machine.  Either the complex number ca *)
(* or the quaternion qa is chosen at construction, the other one is zero.  *)
(***************************************************************************)
ComplexScalars == {Float(n, 1) : n \in -MaxC .. MaxC}
QuaternionScalars == {Float(n, 2) : n \in -2 * MaxQ .. 2 * MaxQ}

Complexes == [r : ComplexScalars, i : ComplexScalars]
Quaternions ==
    [r : QuaternionScalars, i : QuaternionScalars,
     j : QuaternionScalars, k : QuaternionScalars]

ZeroComplex == [r |-> Float(0, 1), i |-> Float(0, 1)]
ZeroQuaternion ==
    [r |-> Float(0, 1), i |-> Float(0, 1), j |-> Float(0, 1), k |-> Float(0, 1)]

InitComplex ==
    /\ signed = TRUE
    /\ checks = TRUE
    /\ \/ ca \in Complexes /\ qa = ZeroQuaternion
       \/ ca = ZeroComplex /\ qa \in Quaternions
    /\ cacc = ca
    /\ qacc = qa
    /\ nrm = Float(0, 1)
    /\ hist = <<>>
    /\ status = "ok"
    /\ InitRationalIdle
    /\ InitFixedIdle
    /\ InitMatrixIdle
    /\ InitGcdIdle
    /\ InitAlgebraIdle

\* The Complex operation `name` yields the complex number r.
ComplexApply(name, r) ==
    /\ CanApply(name)
    /\ hist' = Append(hist, name)
    /\ cacc' = r
    /\ UNCHANGED <<signed, checks, gvars, avars, rvars, fvars, mvars, status, ca, qa, qacc, nrm>>

\* The Complex operation `name` yields the scalar r.
ComplexMeasure(name, r) ==
    /\ CanApply(name)
    /\ hist' = Append(hist, name)
    /\ nrm' = r
    /\ UNCHANGED <<signed, checks, gvars, avars, rvars, fvars, mvars, status, ca, cacc, qa, qacc>>

\* The Quaternion operation `name` yields the quaternion r.
QuaternionApply(name, r) ==
    /\ CanApply(name)
    /\ hist' = Append(hist, name)
    /\ qacc' = r
    /\ UNCHANGED <<signed, checks, gvars, avars, rvars, fvars, mvars, status, ca, cacc, qa, nrm>>

ComplexConj == ComplexApply("c_conj", Complex_conj(cacc))
ComplexNormSqr == ComplexMeasure("c_norm_sqr", Complex_norm_sqr(cacc))
ComplexMul == ComplexApply("c_mul", Complex_mul(ca, cacc))
QuaternionConj == QuaternionApply("q_conj", Quaternion_conj(qacc))
QuaternionInverse == QuaternionApply("q_inverse", Quaternion_inverse(qacc))
QuaternionMul == QuaternionApply("q_mul", Quaternion_mul(qa, qacc))

NextComplex ==
    \/ ComplexConj \/ ComplexNormSqr \/ ComplexMul
    \/ QuaternionConj \/ QuaternionInverse \/ QuaternionMul

SpecComplex == InitComplex /\ [][NextComplex]_vars

(***************************************************************************)
(* Properties of Complex and Quaternion.                                   *)
(***************************************************************************)
\* r*r + i*i of the complex number x
SumOfSquares2(x) == FloatAdd(FloatMul(x.r, x.r), FloatMul(x.i, x.i))

\* r*r + i*i + j*j + k*k of the quaternion x
SumOfSquares4(x) ==
    FloatAdd(FloatAdd(FloatMul(x.r, x.r), FloatMul(x.i, x.i)),
             FloatAdd(FloatMul(x.j, x.j), FloatMul(x.k, x.k)))

\* C18: for every Complex c over an exact scalar, c * c.conj() has imaginary
\* part exactly zero and real part r*r + i*i.
C18_TimesConjIsNormSqr ==
    hist = <<"c_conj", "c_mul">>
    => cacc.i = Float(0, 1) /\ cacc.r = SumOfSquares2(ca)

\* (3 + 4i) * (3 - 4i) was computed and is 25 + 0i
C18_Witness ==
    /\ hist = <<"c_conj", "c_mul">>
    /\ ca = [r |-> Float(3, 1), i |-> Float(4, 1)]
    /\ cacc = [r |-> Float(25, 1), i |-> Float(0, 1)]

\* C19: the operation documented as returning the norm of a Complex returns
\* sqrt(r*r + i*i), the non-negative scalar whose square is r*r + i*i.
C19_NormIsSquareRoot ==
    hist = <<"c_norm_sqr">>
    => nrm.n >= 0 /\ FloatMul(nrm, nrm) = SumOfSquares2(ca)

\* C20: for every Quaternion q with nonzero norm, q * q.inverse() is
\* (1,0,0,0) in exact arithmetic; q * q.conj() is (r*r+i*i+j*j+k*k, 0, 0, 0)
\* and q.inverse() is q.conj() with each component divided by that sum.
C20_TimesInverseIsOne ==
    /\ (hist = <<"q_inverse", "q_mul">> /\ qa # ZeroQuaternion)
       => qacc = [r |-> Float(1, 1), i |-> Float(0, 1),
                  j |-> Float(0, 1), k |-> Float(0, 1)]
    /\ hist = <<"q_conj", "q_mul">>
       => qacc = [r |-> SumOfSquares4(qa), i |-> Float(0, 1),
                  j |-> Float(0, 1), k |-> Float(0, 1)]
    /\ (hist = <<"q_inverse">> /\ qa # ZeroQuaternion)
       => \A x \in {"r", "i", "j", "k"} :
             qacc[x] = FloatDiv(Quaternion_conj(qa)[x], SumOfSquares4(qa))

\* a quaternion with four nonzero components and a norm other than 1 was
\* multiplied by its inverse and gave (1,0,0,0)
C20_Witness ==
    /\ hist = <<"q_inverse", "q_mul">>
    /\ \A x \in {"r", "i", "j", "k"} : qa[x].n # 0
    /\ SumOfSquares4(qa) # Float(1, 1)
    /\ qacc = [r |-> Float(1, 1), i |-> Float(0, 1),
               j |-> Float(0, 1), k |-> Float(0, 1)]

(***************************************************************************)
(* The operators of Complex and Quaternion with a complex or quaternion    *)
(* right-hand side, and quaternion * vector.                               *)
(***************************************************************************)
\* complex + complex
Complex_add(self, other) ==
    [r |-> FloatAdd(self.r, other.r),
     i |-> FloatAdd(self.i, other.i)]

\* complex += complex
Complex_add_assign(self, other) ==
    [r |-> FloatAdd(self.r, other.r),
     i |-> FloatAdd(self.i, other.i)]

\* complex - complex
Complex_sub(self, other) ==
    [r |-> FloatSub(self.r, other.r),
     i |-> FloatSub(self.i, other.i)]

\* complex -= complex
Complex_sub_assign(self, other) ==
    [r |-> FloatSub(self.r, other.r),
     i |-> FloatSub(self.i, other.i)]

\* complex *= complex
Complex_mul_assign(self, other) ==
    LET r == FloatSub(FloatMul(self.r, other.r), FloatMul(self.i, other.i))
        i == FloatAdd(FloatMul(self.r, other.i), FloatMul(self.i, other.r))
    IN  [r |-> r,
         i |-> i]

\* complex / complex
Complex_div(self, other) ==
    LET f == FloatAdd(FloatMul(other.r, other.r), FloatMul(other.i, other.i))
    IN  [r |-> FloatDiv(FloatAdd(FloatMul(self.r, other.r), FloatMul(self.i, other.i)), f),
         i |-> FloatDiv(FloatSub(FloatMul(self.i, other.r), FloatMul(self.r, other.i)), f)]

\* complex /= complex
Complex_div_assign(self, other) ==
    LET f == FloatAdd(FloatMul(other.r, other.r), FloatMul(other.i, other.i))
        r == FloatDiv(FloatAdd(FloatMul(self.r, other.r), FloatMul(self.i, other.i)), f)
        i == FloatDiv(FloatSub(FloatMul(self.i, other.r), FloatMul(self.r, other.i)), f)
    IN  [r |-> r,
         i |-> i]

\* complex + quaternion
Complex_add_quaternion(self, other) ==
    [r |-> FloatAdd(self.r, other.r),
     i |-> FloatAdd(self.i, other.i),
     j |-> other.j,
     k |-> other.k]

\* quaternion + complex
Quaternion_add_complex(self, other) ==
    [r |-> FloatAdd(self.r, other.r),
     i |-> FloatAdd(self.i, other.i),
     j |-> self.j,
     k |-> self.k]

\* quaternion + quaternion
Quaternion_add(self, other) ==
    [r |-> FloatAdd(self.r, other.r),
     i |-> FloatAdd(self.i, other.i),
     j |-> FloatAdd(self.j, other.j),
     k |-> FloatAdd(self.k, other.k)]

\* quaternion += complex
Quaternion_add_assign_complex(self, other) ==
    [r |-> FloatAdd(self.r, other.r),
     i |-> FloatAdd(self.i, other.i),
     j |-> self.j,
     k |-> self.k]

\* quaternion += quaternion
Quaternion_add_assign(self, other) ==
    [r |-> FloatAdd(self.r, other.r),
     i |-> FloatAdd(self.i, other.i),
     j |-> FloatAdd(self.j, other.j),
     k |-> FloatAdd(self.k, other.k)]

\* complex - quaternion
Complex_sub_quaternion(self, other) ==
    [r |-> FloatSub(self.r, other.r),
     i |-> FloatSub(self.i, other.i),
     j |-> FloatNeg(other.j),
     k |-> FloatNeg(other.k)]

\* quaternion - complex
Quaternion_sub_complex(self, other) ==
    [r |-> FloatSub(self.r, other.r),
     i |-> FloatSub(self.i, other.i),
     j |-> self.j,
     k |-> self.k]

\* quaternion - quaternion
Quaternion_sub(self, other) ==
    [r |-> FloatSub(self.r, other.r),
     i |-> FloatSub(self.i, other.i),
     j |-> FloatSub(self.j, other.j),
     k |-> FloatSub(self.k, other.k)]

\* quaternion -= complex
Quaternion_sub_assign_complex(self, other) ==
    [r |-> FloatSub(self.r, other.r),
     i |-> FloatSub(self.i, other.i),
     j |-> self.j,
     k |-> self.k]

\* quaternion -= quaternion
Quaternion_sub_assign(self, other) ==
    [r |-> FloatSub(self.r, other.r),
     i |-> FloatSub(self.i, other.i),
     j |-> FloatSub(self.j, other.j),
     k |-> FloatSub(self.k, other.k)]

\* complex * quaternion
Complex_mul_quaternion(self, other) ==
    [r |-> FloatSub(FloatMul(self.r, other.r), FloatMul(self.i, other.i)),
     i |-> FloatAdd(FloatMul(self.r, other.i), FloatMul(self.i, other.r)),
     j |-> FloatSub(FloatMul(self.r, other.j), FloatMul(self.i, other.k)),
     k |-> FloatAdd(FloatMul(self.r, other.k), FloatMul(self.i, other.j))]

\* quaternion * complex
Quaternion_mul_complex(self, other) ==
    [r |-> FloatSub(FloatMul(self.r, other.r), FloatMul(self.i, other.i)),
     i |-> FloatAdd(FloatMul(self.r, other.i), FloatMul(self.i, other.r)),
     j |-> FloatAdd(FloatMul(self.j, other.r), FloatMul(self.k, other.i)),
     k |-> FloatAdd(FloatMul(self.j, other.i), FloatMul(self.k, other.r))]

\* a quaternion * vector that leaves the vector as it is
Quaternion_mul_vec3_unrotated(self, other) == other

\* quaternion * vector
Quaternion_mul_vec3(self, other) ==
    LET rr     == FloatMul(self.r, self.r)
        ri     == FloatMul(self.r, self.i)
        rj     == FloatMul(self.r, self.j)
        rk     == FloatMul(self.r, self.k)
        ii     == FloatMul(self.i, self.i)
        ij     == FloatMul(self.i, self.j)
        ik     == FloatMul(self.i, self.k)
        jj     == FloatMul(self.j, self.j)
        jk     == FloatMul(self.j, self.k)
        kk     == FloatMul(self.k, self.k)
        ijprk  == FloatAdd(ij, rk)
        ijprk2 == FloatAdd(ijprk, ijprk)
        ijmrk  == FloatSub(ij, rk)
        ijmrk2 == FloatAdd(ijmrk, ijmrk)
        jkpri  == FloatAdd(jk, ri)
        jkpri2 == FloatAdd(jkpri, jkpri)
        jkmri  == FloatSub(jk, ri)
        jkmri2 == FloatAdd(jkmri, jkmri)
        ikprj  == FloatAdd(ik, rj)
        ikprj2 == FloatAdd(ikprj, ikprj)
        ikmrj  == FloatSub(ik, rj)
        ikmrj2 == FloatAdd(ikmrj, ikmrj)
    IN  [x |-> FloatAdd(FloatAdd(FloatMul(FloatSub(FloatSub(FloatAdd(rr, ii), jj), kk), other.x), FloatMul(ijmrk2, other.y)), FloatMul(ikprj2, other.z)),
         y |-> FloatAdd(FloatAdd(FloatMul(FloatSub(FloatAdd(FloatSub(rr, ii), jj), kk), other.y), FloatMul(jkmri2, other.z)), FloatMul(ijprk2, other.x)),
         z |-> FloatAdd(FloatAdd(FloatMul(FloatAdd(FloatSub(FloatSub(rr, ii), jj), kk), other.z), FloatMul(ikmrj2, other.x)), FloatMul(jkpri2, other.y))]

\* quaternion *= complex
Quaternion_mul_assign_complex(self, other) ==
    LET r == FloatSub(FloatMul(self.r, other.r), FloatMul(self.i, other.i))
        i == FloatAdd(FloatMul(self.i, other.r), FloatMul(self.r, other.i))
        j == FloatAdd(FloatMul(self.j, other.r), FloatMul(self.k, other.i))
        k == FloatSub(FloatMul(self.k, other.r), FloatMul(self.j, other.i))
    IN  [r |-> r,
         i |-> i,
         j |-> j,
         k |-> k]

\* quaternion *= quaternion
Quaternion_mul_assign(self, other) ==
    LET r == FloatSub(FloatSub(FloatSub(FloatMul(self.r, other.r), FloatMul(self.i, other.i)), FloatMul(self.j, other.j)), FloatMul(self.k, other.k))
        i == FloatSub(FloatAdd(FloatAdd(FloatMul(self.r, other.i), FloatMul(self.i, other.r)), FloatMul(self.j, other.k)), FloatMul(self.k, other.j))
        j == FloatAdd(FloatAdd(FloatSub(FloatMul(self.r, other.j), FloatMul(self.i, other.k)), FloatMul(self.j, other.r)), FloatMul(self.k, other.i))
        k == FloatAdd(FloatSub(FloatAdd(FloatMul(self.r, other.k), FloatMul(self.i, other.j)), FloatMul(self.j, other.i)), FloatMul(self.k, other.r))
    IN  [r |-> r,
         i |-> i,
         j |-> j,
         k |-> k]

\* complex / quaternion
Complex_div_quaternion(self, other) ==
    LET f == FloatAdd(FloatAdd(FloatAdd(FloatMul(other.r, other.r), FloatMul(other.i, other.i)), FloatMul(other.j, other.j)), FloatMul(other.k, other.k))
    IN  [r |-> FloatDiv(FloatAdd(FloatMul(self.r, other.r), FloatMul(self.i, other.i)), f),
         i |-> FloatDiv(FloatSub(FloatMul(self.i, other.r), FloatMul(self.r, other.i)), f),
         j |-> FloatDiv(FloatSub(FloatMul(self.i, other.k), FloatMul(self.r, other.j)), f),
         k |-> FloatDiv(FloatSub(FloatMul(FloatNeg(self.r), other.k), FloatMul(self.i, other.j)), f)]

\* quaternion / complex
Quaternion_div_complex(self, other) ==
    LET f == FloatAdd(FloatMul(other.r, other.r), FloatMul(other.i, other.i))
    IN  [r |-> FloatDiv(FloatAdd(FloatMul(self.r, other.r), FloatMul(self.i, other.i)), f),
         i |-> FloatDiv(FloatSub(FloatMul(self.i, other.r), FloatMul(self.r, other.i)), f),
         j |-> FloatDiv(FloatSub(FloatMul(self.j, other.r), FloatMul(self.k, other.i)), f),
         k |-> FloatDiv(FloatAdd(FloatMul(self.k, other.r), FloatMul(self.j, other.i)), f)]

\* quaternion / quaternion
Quaternion_div(self, other) ==
    LET f == FloatAdd(FloatAdd(FloatAdd(FloatMul(other.r, other.r), FloatMul(other.i, other.i)), FloatMul(other.j, other.j)), FloatMul(other.k, other.k))
    IN  [r |-> FloatDiv(FloatAdd(FloatAdd(FloatAdd(FloatMul(self.r, other.r), FloatMul(self.i, other.i)), FloatMul(self.j, other.j)), FloatMul(self.k, other.k)), f),
         i |-> FloatDiv(FloatSub(FloatAdd(FloatSub(FloatMul(self.i, other.r), FloatMul(self.j, other.k)), FloatMul(self.k, other.j)), FloatMul(self.r, other.i)), f),
         j |-> FloatDiv(FloatAdd(FloatSub(FloatSub(FloatMul(self.j, other.r), FloatMul(self.k, other.i)), FloatMul(self.r, other.j)), FloatMul(self.i, other.k)), f),
         k |-> FloatDiv(FloatAdd(FloatSub(FloatSub(FloatMul(self.k, other.r), FloatMul(self.r, other.k)), FloatMul(self.i, other.j)), FloatMul(self.j, other.i)), f)]

\* quaternion /= complex
Quaternion_div_assign_complex(self, other) ==
    LET f == FloatAdd(FloatMul(other.r, other.r), FloatMul(other.i, other.i))
        r == FloatDiv(FloatAdd(FloatMul(self.r, other.r), FloatMul(self.i, other.i)), f)
        i == FloatDiv(FloatSub(FloatMul(self.i, other.r), FloatMul(self.r, other.i)), f)
        j == FloatDiv(FloatSub(FloatMul(self.j, other.r), FloatMul(self.k, other.i)), f)
        k == FloatDiv(FloatAdd(FloatMul(self.k, other.r), FloatMul(self.j, other.i)), f)
    IN  [r |-> r,
         i |-> i,
         j |-> j,
         k |-> k]

\* quaternion /= quaternion
Quaternion_div_assign(self, other) ==
    LET f == FloatAdd(FloatAdd(FloatAdd(FloatMul(other.r, other.r), FloatMul(other.i, other.i)), FloatMul(other.j, other.j)), FloatMul(other.k, other.k))
        r == FloatDiv(FloatAdd(FloatAdd(FloatAdd(FloatMul(self.r, other.r), FloatMul(self.i, other.i)), FloatMul(self.j, other.j)), FloatMul(self.k, other.k)), f)
        i == FloatDiv(FloatSub(FloatAdd(FloatSub(FloatMul(self.i, other.r), FloatMul(self.j, other.k)), FloatMul(self.k, other.j)), FloatMul(self.r, other.i)), f)
        j == FloatDiv(FloatAdd(FloatSub(FloatSub(FloatMul(self.j, other.r), FloatMul(self.k, other.i)), FloatMul(self.r, other.j)), FloatMul(self.i, other.k)), f)
        k == FloatDiv(FloatAdd(FloatSub(FloatSub(FloatMul(self.k, other.r), FloatMul(self.r, other.k)), FloatMul(self.i, other.j)), FloatMul(self.j, other.i)), f)
    IN  [r |-> r,
         i |-> i,
         j |-> j,
         k |-> k]

\* Mat2x2 *= Mat2x2
Mat2x2_mul_assign(self, other) ==
    LET xx == self.x.x * other.x.x + self.x.y * other.y.x
        xy == self.x.x * other.x.y + self.x.y * other.y.y
        yx == self.y.x * other.x.x + self.y.y * other.y.x
        yy == self.y.x * other.x.y + self.y.y * other.y.y
    IN  [x |-> [x |-> xx, y |-> xy],
         y |-> [x |-> yx, y |-> yy]]

(***************************************************************************)
(* The operator state machine: the binary and compound-assignment          *)
(* operators of Complex, Quaternion and Mat2x2.  The operands are chosen   *)
(* at construction: a quaternion and a complex number, a quaternion and a  *)
(* vector, three quaternions, two complex numbers, or a matrix; the        *)
(* operands that are not chosen stay <<>>.  One operator is applied to the *)
(* operands, `self op= other` leaving its result in the accumulator that   *)
(* started as self.                                                        *)
(***************************************************************************)
AlgebraScalars == {Float(n, 1) : n \in -MaxA .. MaxA}
AlgebraComplexes == [r : AlgebraScalars, i : AlgebraScalars]
AlgebraQuaternions ==
    [r : AlgebraScalars, i : AlgebraScalars, j : AlgebraScalars, k : AlgebraScalars]
AlgebraVec3s == [x : AlgebraScalars, y : AlgebraScalars, z : AlgebraScalars]
\* the sums of distinct basis elements 1, i, j, k
BasisSums ==
    [r : {Float(0, 1), Float(1, 1)}, i : {Float(0, 1), Float(1, 1)},
     j : {Float(0, 1), Float(1, 1)}, k : {Float(0, 1), Float(1, 1)}]

InitAlgebra ==
    /\ signed = TRUE
    /\ checks = TRUE
    /\ \/ /\ qa \in AlgebraQuaternions /\ ca \in AlgebraComplexes
          /\ cb = <<>> /\ qb = <<>> /\ qc = <<>> /\ va = <<>> /\ mat = <<>>
       \/ /\ qa \in AlgebraQuaternions /\ va \in AlgebraVec3s
          /\ ca = <<>> /\ cb = <<>> /\ qb = <<>> /\ qc = <<>> /\ mat = <<>>
       \/ /\ qa \in BasisSums /\ qb \in BasisSums /\ qc \in BasisSums
          /\ ca = <<>> /\ cb = <<>> /\ va = <<>> /\ mat = <<>>
       \/ /\ ca \in AlgebraComplexes /\ cb \in AlgebraComplexes
          /\ qa = <<>> /\ qb = <<>> /\ qc = <<>> /\ va = <<>> /\ mat = <<>>
       \/ /\ mat \in Mat2x2s
          /\ ca = <<>> /\ cb = <<>> /\ qa = <<>> /\ qb = <<>> /\ qc = <<>> /\ va = <<>>
    /\ cacc = ca
    /\ qacc = qa
    /\ vacc = va
    /\ macc = mat
    /\ mdet = 0
    /\ nrm = Float(0, 1)
    /\ hist = <<>>
    /\ status = "ok"
    /\ InitRationalIdle
    /\ InitFixedIdle
    /\ InitGcdIdle

\* The operation `name` yields the vector r.
VectorApply(name, r) ==
    /\ CanApply(name)
    /\ hist' = Append(hist, name)
    /\ vacc' = r
    /\ UNCHANGED <<signed, checks, gvars, rvars, fvars, mvars, cvars, status, cb, qb, qc, va>>

\* which operands were chosen
Mixed == qa # <<>> /\ ca # <<>>
Rotation == qa # <<>> /\ va # <<>>
Triple == qa # <<>> /\ qb # <<>> /\ qc # <<>>
Pair == ca # <<>> /\ cb # <<>>

\* not 0 + 0i (resp. 0 + 0i + 0j + 0k): x / 0.0 is an infinity, which Float
\* does not represent, so the divisions are applied to nonzero divisors
NonZero(x) == \E fld \in DOMAIN x : x[fld].n # 0

QuaternionAddComplex == Mixed /\ QuaternionApply("q_add_c", Quaternion_add_complex(qa, ca))
ComplexAddQuaternion == Mixed /\ QuaternionApply("c_add_q", Complex_add_quaternion(ca, qa))
QuaternionSubComplex == Mixed /\ QuaternionApply("q_sub_c", Quaternion_sub_complex(qa, ca))
ComplexSubQuaternion == Mixed /\ QuaternionApply("c_sub_q", Complex_sub_quaternion(ca, qa))
QuaternionMulComplex == Mixed /\ QuaternionApply("q_mul_c", Quaternion_mul_complex(qa, ca))
ComplexMulQuaternion == Mixed /\ QuaternionApply("c_mul_q", Complex_mul_quaternion(ca, qa))
QuaternionDivComplex ==
    Mixed /\ NonZero(ca) /\ QuaternionApply("q_div_c", Quaternion_div_complex(qa, ca))
ComplexDivQuaternion ==
    Mixed /\ NonZero(qa) /\ QuaternionApply("c_div_q", Complex_div_quaternion(ca, qa))
QuaternionAddAssignComplex ==
    Mixed /\ QuaternionApply("q_add_assign_c", Quaternion_add_assign_complex(qacc, ca))
QuaternionSubAssignComplex ==
    Mixed /\ QuaternionApply("q_sub_assign_c", Quaternion_sub_assign_complex(qacc, ca))
QuaternionMulAssignComplex ==
    Mixed /\ QuaternionApply("q_mul_assign_c", Quaternion_mul_assign_complex(qacc, ca))
QuaternionDivAssignComplex ==
    Mixed /\ NonZero(ca)
    /\ QuaternionApply("q_div_assign_c", Quaternion_div_assign_complex(qacc, ca))

QuaternionMulVec3 == Rotation /\ VectorApply("q_mul_v", Quaternion_mul_vec3(qa, va))

QuaternionAddQuaternion == Triple /\ QuaternionApply("q_add_q", Quaternion_add(qa, qb))
QuaternionSubQuaternion == Triple /\ QuaternionApply("q_sub_q", Quaternion_sub(qa, qb))
QuaternionMulQuaternion == Triple /\ QuaternionApply("q_mul_q", Quaternion_mul(qa, qb))
QuaternionMulThird == Triple /\ QuaternionApply("q_mul_third", Quaternion_mul(qacc, qc))
QuaternionDivQuaternion ==
    Triple /\ NonZero(qb) /\ QuaternionApply("q_div_q", Quaternion_div(qa, qb))
QuaternionAddAssign == Triple /\ QuaternionApply("q_add_assign_q", Quaternion_add_assign(qacc, qb))
QuaternionSubAssign == Triple /\ QuaternionApply("q_sub_assign_q", Quaternion_sub_assign(qacc, qb))
QuaternionMulAssign == Triple /\ QuaternionApply("q_mul_assign_q", Quaternion_mul_assign(qacc, qb))
QuaternionDivAssign ==
    Triple /\ NonZero(qb) /\ QuaternionApply("q_div_assign_q", Quaternion_div_assign(qacc, qb))

ComplexAddComplex == Pair /\ ComplexApply("c_add_c", Complex_add(ca, cb))
ComplexSubComplex == Pair /\ ComplexApply("c_sub_c", Complex_sub(ca, cb))
ComplexMulComplex == Pair /\ ComplexApply("c_mul_c", Complex_mul(ca, cb))
ComplexDivComplex == Pair /\ NonZero(cb) /\ ComplexApply("c_div_c", Complex_div(ca, cb))
ComplexAddAssign == Pair /\ ComplexApply("c_add_assign_c", Complex_add_assign(cacc, cb))
ComplexSubAssign == Pair /\ ComplexApply("c_sub_assign_c", Complex_sub_assign(cacc, cb))
ComplexMulAssign == Pair /\ ComplexApply("c_mul_assign_c", Complex_mul_assign(cacc, cb))
ComplexDivAssign ==
    Pair /\ NonZero(cb) /\ ComplexApply("c_div_assign_c", Complex_div_assign(cacc, cb))

\* m *= other, other being m itself or the transpose taken in the step before
Mat2x2MulAssign ==
    Dim(mat) = 2 /\ MatApply("mat_mul_assign", Mat2x2_mul_assign(mat, macc))

NextAlgebra ==
    \/ QuaternionAddComplex \/ ComplexAddQuaternion
    \/ QuaternionSubComplex \/ ComplexSubQuaternion
    \/ QuaternionMulComplex \/ ComplexMulQuaternion
    \/ QuaternionDivComplex \/ ComplexDivQuaternion
    \/ QuaternionAddAssignComplex \/ QuaternionSubAssignComplex
    \/ QuaternionMulAssignComplex \/ QuaternionDivAssignComplex
    \/ QuaternionMulVec3
    \/ QuaternionAddQuaternion \/ QuaternionSubQuaternion
    \/ QuaternionMulQuaternion \/ QuaternionMulThird \/ QuaternionDivQuaternion
    \/ QuaternionAddAssign \/ QuaternionSubAssign
    \/ QuaternionMulAssign \/ QuaternionDivAssign
    \/ ComplexAddComplex \/ ComplexSubComplex \/ ComplexMulComplex \/ ComplexDivComplex
    \/ ComplexAddAssign \/ ComplexSubAssign \/ ComplexMulAssign \/ ComplexDivAssign
    \/ Mat2x2Transpose \/ Mat2x2MulAssign

SpecAlgebra == InitAlgebra /\ [][NextAlgebra]_vars

(***************************************************************************)
(* Properties of the operators.                                            *)
(***************************************************************************)
\* the vector v as the pure quaternion (0, v)
PureQuaternion(v) == [r |-> Float(0, 1), i |-> v.x, j |-> v.y, k |-> v.z]

\* q * (0, v) * q.conj()
Sandwich(q, v) ==
    Quaternion_mul(Quaternion_mul(q, PureQuaternion(v)), Quaternion_conj(q))

OneQuaternion ==
    [r |-> Float(1, 1), i |-> Float(0, 1), j |-> Float(0, 1), k |-> Float(0, 1)]

\* C21: for every Quaternion q and Vec3 v, q * v is the vector part of the
\* Hamilton sandwich q * (0, v) * q.conj(), whose real part is zero; and
\* Quaternion { 1, 0, 0, 0 } * v == v.
C21_RotationIsSandwich ==
    hist = <<"q_mul_v">>
    => /\ Sandwich(qa, va).r = Float(0, 1)
       /\ vacc = [x |-> Sandwich(qa, va).i,
                  y |-> Sandwich(qa, va).j,
                  z |-> Sandwich(qa, va).k]
       /\ qa = OneQuaternion => vacc = va

\* (1 + i) * (0, 1, 0) is (0, 0, 2): a quarter turn about x, scaled by |q|^2
C21_Witness ==
    /\ hist = <<"q_mul_v">>
    /\ qa = [r |-> Float(1, 1), i |-> Float(1, 1), j |-> Float(0, 1), k |-> Float(0, 1)]
    /\ va = [x |-> Float(0, 1), y |-> Float(1, 1), z |-> Float(0, 1)]
    /\ vacc = [x |-> Float(0, 1), y |-> Float(0, 1), z |-> Float(2, 1)]

\* The basis table: e_x * e_y is sign * e_axis, with e_r = 1.
BasisProduct(x, y) ==
    CASE x = "r" -> [sign |-> 1, axis |-> y]
      [] y = "r" -> [sign |-> 1, axis |-> x]
      [] x = y -> [sign |-> -1, axis |-> "r"]
      [] <<x, y>> = <<"i", "j">> -> [sign |-> 1, axis |-> "k"]
      [] <<x, y>> = <<"j", "k">> -> [sign |-> 1, axis |-> "i"]
      [] <<x, y>> = <<"k", "i">> -> [sign |-> 1, axis |-> "j"]
      [] <<x, y>> = <<"j", "i">> -> [sign |-> -1, axis |-> "k"]
      [] <<x, y>> = <<"k", "j">> -> [sign |-> -1, axis |-> "i"]
      [] <<x, y>> = <<"i", "k">> -> [sign |-> -1, axis |-> "j"]

\* the part of p[x] * e_x * q that lies on the axis z
HamiltonTerm(p, q, x, z) ==
    LET y == CHOOSE y \in {"r", "i", "j", "k"} : BasisProduct(x, y).axis = z
    IN  FloatMul(Float(BasisProduct(x, y).sign, 1), FloatMul(p[x], q[y]))

\* the bilinear extension of the basis table
HamiltonProduct(p, q) ==
    [z \in {"r", "i", "j", "k"} |->
        FloatAdd(FloatAdd(FloatAdd(HamiltonTerm(p, q, "r", z),
                                   HamiltonTerm(p, q, "i", z)),
                          HamiltonTerm(p, q, "j", z)),
                 HamiltonTerm(p, q, "k", z))]

\* C22: Quaternion * Quaternion is the Hamilton product, the bilinear
\* extension of i*i = j*j = k*k = -1, i*j = k, j*k = i, k*i = j, j*i = -k,
\* k*j = -i, i*k = -j, and it is associative over exact scalars.
C22_HamiltonProductAssociative ==
    /\ hist = <<"q_mul_q">> => qacc = HamiltonProduct(qa, qb)
    /\ hist = <<"q_mul_q", "q_mul_third">>
       => qacc = Quaternion_mul(qa, Quaternion_mul(qb, qc))

\* (i * j) * j = k * j = -i
C22_Witness ==
    /\ hist = <<"q_mul_q", "q_mul_third">>
    /\ qa = [r |-> Float(0, 1), i |-> Float(1, 1), j |-> Float(0, 1), k |-> Float(0, 1)]
    /\ qb = [r |-> Float(0, 1), i |-> Float(0, 1), j |-> Float(1, 1), k |-> Float(0, 1)]
    /\ qc = qb
    /\ qacc = [r |-> Float(0, 1), i |-> Float(-1, 1), j |-> Float(0, 1), k |-> Float(0, 1)]

\* the complex number c as the quaternion (c.r, c.i, 0, 0)
Embed(c) == [r |-> c.r, i |-> c.i, j |-> Float(0, 1), k |-> Float(0, 1)]

\* C26: the mixed Complex-Quaternion operators agree with embedding c as
\* (c.r, c.i, 0, 0): q op c == q op embed(c) and c op q == embed(c) op q for
\* op in +, -, *, /.
C26_MixedAsEmbedded ==
    /\ hist = <<"q_add_c">> => qacc = Quaternion_add(qa, Embed(ca))
    /\ hist = <<"c_add_q">> => qacc = Quaternion_add(Embed(ca), qa)
    /\ hist = <<"q_sub_c">> => qacc = Quaternion_sub(qa, Embed(ca))
    /\ hist = <<"c_sub_q">> => qacc = Quaternion_sub(Embed(ca), qa)
    /\ hist = <<"q_mul_c">> => qacc = Quaternion_mul(qa, Embed(ca))
    /\ hist = <<"c_mul_q">> => qacc = Quaternion_mul(Embed(ca), qa)
    /\ hist = <<"q_div_c">> => qacc = Quaternion_div(qa, Embed(ca))
    /\ hist = <<"c_div_q">> => qacc = Quaternion_div(Embed(ca), qa)

\* C27: every compound-assignment operator gives the value of its binary
\* operator: a op= b leaves a op b in a, for Complex, Quaternion (with a
\* quaternion and with a complex right-hand side) and Mat2x2 *= Mat2x2.
C27_AssignAsBinary ==
    /\ hist = <<"c_add_assign_c">> => cacc = Complex_add(ca, cb)
    /\ hist = <<"c_sub_assign_c">> => cacc = Complex_sub(ca, cb)
    /\ hist = <<"c_mul_assign_c">> => cacc = Complex_mul(ca, cb)
    /\ hist = <<"c_div_assign_c">> => cacc = Complex_div(ca, cb)
    /\ hist = <<"q_add_assign_q">> => qacc = Quaternion_add(qa, qb)
    /\ hist = <<"q_sub_assign_q">> => qacc = Quaternion_sub(qa, qb)
    /\ hist = <<"q_mul_assign_q">> => qacc = Quaternion_mul(qa, qb)
    /\ hist = <<"q_div_assign_q">> => qacc = Quaternion_div(qa, qb)
    /\ hist = <<"q_add_assign_c">> => qacc = Quaternion_add_complex(qa, ca)
    /\ hist = <<"q_sub_assign_c">> => qacc = Quaternion_sub_complex(qa, ca)
    /\ hist = <<"q_mul_assign_c">> => qacc = Quaternion_mul_complex(qa, ca)
    /\ hist = <<"q_div_assign_c">> => qacc = Quaternion_div_complex(qa, ca)
    /\ hist = <<"mat_mul_assign">> => macc = Mat2x2_mul(mat, mat)
    /\ hist = <<"mat_transpose", "mat_mul_assign">>
       => macc = Mat2x2_mul(mat, Mat2x2_transpose(mat))

=============================================================================
